---- MODULE Spec2Model ----
(***************************************************************************)
(* The W3E terrain codec: the bit stream (BitStream), the codec            *)
(* (TerrainUtil.decodeW3e / encodeW3e / generateEmptyW3e).                 *)
(*                                                                         *)
(* Representation of JavaScript values                                     *)
(*  - an integer number is an Int; bitwise operators act on it as on an    *)
(*    int32 in two's complement, as in JavaScript.  Integers here are      *)
(*    limited to the int32 range.  A number n with 2^31 <= n < 2^32 (the   *)
(*    `>>> 0` of a negative int32) is the record [above31 |-> n - 2^31].   *)
(*    The number argument of a write is carried as its ToInt32, which is   *)
(*    what every use of it in the method (value & 0xFF, value >> k)        *)
(*    converts it to.  The files given to decodeW3e keep the top bit of    *)
(*    every 32-bit word clear.                                             *)
(*  - a height (groundHeight, waterHeight) is a number of sixteenths       *)
(*    (HeightDen): 4 stands for 0.25, 1 for 0.0625.                        *)
(*  - the numbers x and y are records [k, s, m, e]: k = "fin" is           *)
(*    (-1)^s * m * 2^e with m odd (or m = 0, e = 0), k = "inf" is          *)
(*    (-1)^s * Infinity, k = "nan" is NaN.                                 *)
(*  - a string is the sequence of its char codes; a Uint8Array is the      *)
(*    sequence of its bytes (index i of the code is index i + 1 here).     *)
(*  - a call that can throw returns [s, err, v]: the stream after the      *)
(*    call, the message thrown ("" when it returned) and the value.        *)
(***************************************************************************)
EXTENDS Integers, Sequences, FiniteSets, TLC

VARIABLES
    buffer,       \* BitStream.buffer
    bitPosition,  \* BitStream.bitPosition
    isWriting,    \* BitStream.isWriting
    ret,          \* what the last call on the stream did
    calls,        \* the number of calls made on the stream
    written,      \* the bits the writes on the stream were asked to store, in order
    w3e,          \* the document the caller holds (App's terrain), or NoDoc
    file,         \* the byte buffer the caller holds, or <<>> before there is one
    orig,         \* the input the run started from (a document or a buffer)
    src,          \* "doc": the run starts from a document, "file": from a buffer
    phase,        \* how far the run is: "start", "encoded", "decoded", "reencoded"
    thrown,       \* the message of the error the last codec call threw, "" if none
    mappings,        \* App's mappings: 16 of [slotIndex, color, active]
    selectedTexture, \* App's selectedTexture
    brushSize,       \* App's brushSize
    pickingSlot,     \* App's pickingSlot, -1 for null
    edit,            \* what the last handler of App did
    edits,           \* the number of paints and image mappings made
    paletteOps       \* the number of changes made to mappings

vars ==
    <<buffer, bitPosition, isWriting, ret, calls, written, w3e, file, orig, src, phase, thrown,
      mappings, selectedTexture, brushSize, pickingSlot, edit, edits, paletteOps>>
streamVars == <<buffer, bitPosition, isWriting, ret, calls, written>>
codecVars == <<w3e, file, orig, src, phase, thrown>>
appVars == <<mappings, selectedTexture, brushSize, pickingSlot, edit, edits, paletteOps>>

---------------------------------------------------------------------------
(* int32 arithmetic of JavaScript's bitwise operators *)

\* a & b
RECURSIVE And(_, _)
And(a, b) ==
    IF a = 0 \/ b = 0 THEN 0
    ELSE IF a = -1 THEN b
    ELSE IF b = -1 THEN a
    ELSE (a % 2) * (b % 2) + 2 * And(a \div 2, b \div 2)

\* a | b
RECURSIVE Or(_, _)
Or(a, b) ==
    IF a = 0 THEN b
    ELSE IF b = 0 THEN a
    ELSE IF a = -1 \/ b = -1 THEN -1
    ELSE (IF a % 2 = 1 \/ b % 2 = 1 THEN 1 ELSE 0) + 2 * Or(a \div 2, b \div 2)

\* ~a
Not(a) == -a - 1

\* a << k: the shift count is taken modulo 32, the result wraps to int32
Shl(a, k) ==
    LET c == k % 32
    IN  IF c = 0 THEN a
        ELSE LET low == a % (2 ^ (31 - c))
                 top == (a \div (2 ^ (31 - c))) % 2
             IN  IF top = 1
                 THEN (low * (2 ^ c) - 2 ^ 30) - 2 ^ 30
                 ELSE low * (2 ^ c)

\* a >> k: arithmetic shift, the shift count is taken modulo 32
Shr(a, k) ==
    LET c == k % 32
    IN  IF c = 31 THEN (IF a < 0 THEN -1 ELSE 0) ELSE a \div (2 ^ c)

\* a >>> k: the int32 read as a uint32, then shifted
Ushr(a, k) ==
    LET c == k % 32
    IN  IF a >= 0 THEN a \div (2 ^ c)
        ELSE IF c = 0 THEN [above31 |-> a + 2 ^ 30 + 2 ^ 30]
        ELSE ((a + 2 ^ 30 + 2 ^ 30) \div (2 ^ c)) + 2 ^ (31 - c)

\* a % n of JavaScript: the sign of the dividend
JsMod(a, n) == IF a >= 0 THEN a % n ELSE -((-a) % n)

\* Math.ceil(a / 8) for an integer a
CeilDiv8(a) == -((-a) \div 8)

---------------------------------------------------------------------------
(* BitStream *)

InitialSize == 1024

Zeros(n) == [i \in 1..n |-> 0]

\* constructor(buffer): read-bound over the caller's buffer
NewReader(buf) == [buffer |-> buf, bitPosition |-> 0, isWriting |-> FALSE]

\* constructor(): write-bound over a fresh buffer
NewWriter == [buffer |-> Zeros(InitialSize), bitPosition |-> 0, isWriting |-> TRUE]

Returned(s, v) == [s |-> s, err |-> "", v |-> v]
Thrown(s, msg) == [s |-> s, err |-> msg, v |-> 0]

ErrWriteInReadMode == "Cannot write in read mode."
ErrReadInWriteMode == "Cannot read in write mode."
ErrGetInReadMode == "Cannot get buffer in read mode."

\* the value of [x \in {v} |-> e]: e with x standing for the value of v.  The
\* statements that follow a call are written this way, after a test of what the
\* call threw: IF r.err # "" THEN r is the exception going on to the caller.
Only(f) == f[CHOOSE x \in DOMAIN f : TRUE]

\* the doubling loop of _ensureCapacity
RECURSIVE GrowTo(_, _)
GrowTo(newLength, requiredBytes) ==
    IF newLength < requiredBytes THEN GrowTo(newLength * 2, requiredBytes) ELSE newLength

\* _ensureCapacity without `newBuffer.set(this.buffer)`
_ensureCapacityNoCopy(s, bitsToWrite) ==
    IF ~s.isWriting THEN Thrown(s, ErrWriteInReadMode)
    ELSE LET requiredBytes == CeilDiv8(s.bitPosition + bitsToWrite)
         IN  IF requiredBytes > Len(s.buffer)
             THEN Returned([s EXCEPT !.buffer =
                              Zeros(GrowTo(Len(s.buffer) * 2, requiredBytes))], 0)
             ELSE Returned(s, 0)

_ensureCapacity(s, bitsToWrite) ==
    IF ~s.isWriting THEN Thrown(s, ErrWriteInReadMode)
    ELSE LET requiredBytes == CeilDiv8(s.bitPosition + bitsToWrite)
         IN  IF requiredBytes > Len(s.buffer)
             THEN LET newLength == GrowTo(Len(s.buffer) * 2, requiredBytes)
                  IN  Returned([s EXCEPT !.buffer =
                                   s.buffer \o Zeros(newLength - Len(s.buffer))], 0)
             ELSE Returned(s, 0)

\* the loop of readUBits: left iterations to go; [pos, value] when it ends
RECURSIVE readLoop(_, _, _, _)
readLoop(buf, pos, value, left) ==
    IF left = 0 THEN [pos |-> pos, value |-> value]
    ELSE LET byteIndex == pos \div 8
             bitInByteIndex == JsMod(pos, 8)
         IN  IF byteIndex >= Len(buf) THEN [pos |-> pos, value |-> value]
             ELSE LET currentByte == IF byteIndex >= 0 THEN buf[byteIndex + 1] ELSE 0
                      bit == And(Shr(currentByte, 7 - bitInByteIndex), 1)
                  IN  Only([next \in {Or(Shl(value, 1), bit)} |->
                          readLoop(buf, pos + 1, next, left - 1)])

readUBits(s, bits, changeOffset) ==
    IF s.isWriting THEN Thrown(s, ErrReadInWriteMode)
    ELSE Only([r \in {readLoop(s.buffer, s.bitPosition, 0, bits)} |->
             Returned([s EXCEPT !.bitPosition = IF changeOffset THEN r.pos ELSE r.pos - bits],
                      Ushr(r.value, 0))])

\* the loop of writeUBits, i from bits - 1 down to 0
RECURSIVE writeLoop(_, _, _, _)
writeLoop(buf, pos, value, i) ==
    IF i < 0 THEN [buffer |-> buf, pos |-> pos]
    ELSE LET byteIndex == pos \div 8
             bitInByteIndex == JsMod(pos, 8)
             bit == And(Shr(value, i), 1)
             currentByte == buf[byteIndex + 1]
             stored == Or(And(currentByte, Not(Shl(1, 7 - bitInByteIndex))),
                          Shl(bit, 7 - bitInByteIndex))
         IN  writeLoop([buf EXCEPT ![byteIndex + 1] = stored % 256], pos + 1, value, i - 1)

\* writeUBits storing into a byte it has cleared first
writeUBitsClearingByte(s, value, bits) ==
    Only([c \in {_ensureCapacity(s, bits)} |-> IF c.err # "" THEN c ELSE
    Only([w \in {writeLoop([c.s.buffer EXCEPT ![(c.s.bitPosition \div 8) + 1] = 0],
                           c.s.bitPosition, value, bits - 1)} |->
        Returned([c.s EXCEPT !.buffer = w.buffer, !.bitPosition = w.pos], 0)])])

writeUBits(s, value, bits) ==
    Only([c \in {_ensureCapacity(s, bits)} |-> IF c.err # "" THEN c ELSE
    Only([w \in {writeLoop(c.s.buffer, c.s.bitPosition, value, bits - 1)} |->
        Returned([c.s EXCEPT !.buffer = w.buffer, !.bitPosition = w.pos], 0)])])

readUInt8(s, changeOffset) == readUBits(s, 8, changeOffset)
writeUInt8(s, value) == writeUBits(s, value, 8)

readInt8(s, changeOffset) ==
    Only([unsigned \in {readUBits(s, 8, changeOffset)} |->
        IF unsigned.err # "" THEN unsigned
        ELSE Returned(unsigned.s, Shr(Shl(unsigned.v, 24), 24))])
writeInt8(s, value) == writeUBits(s, value, 8)

\* `if (!changeOffset) this.bitPosition -= n` after the reads of a typed read
Rewind(s, changeOffset, n) ==
    IF changeOffset THEN s ELSE [s EXCEPT !.bitPosition = s.bitPosition - n]

readUInt16(s, changeOffset) ==
    Only([byte0 \in {readUBits(s, 8, TRUE)} |-> IF byte0.err # "" THEN byte0 ELSE
    Only([byte1 \in {readUBits(byte0.s, 8, TRUE)} |-> IF byte1.err # "" THEN byte1 ELSE
        Returned(Rewind(byte1.s, changeOffset, 16), Or(byte0.v, Shl(byte1.v, 8)))])])

writeUInt16(s, value) ==
    Only([w0 \in {writeUBits(s, And(value, 255), 8)} |-> IF w0.err # "" THEN w0 ELSE
        writeUBits(w0.s, And(Shr(value, 8), 255), 8)])

\* readInt16 without the sign extension
readInt16Unsigned(s, changeOffset) == readUInt16(s, changeOffset)

readInt16(s, changeOffset) ==
    Only([unsigned \in {readUInt16(s, changeOffset)} |->
        IF unsigned.err # "" THEN unsigned
        ELSE Returned(unsigned.s, Shr(Shl(unsigned.v, 16), 16))])
writeInt16(s, value) == writeUInt16(s, value)

readUInt32(s, changeOffset) ==
    Only([b0 \in {readUBits(s, 8, TRUE)} |-> IF b0.err # "" THEN b0 ELSE
    Only([b1 \in {readUBits(b0.s, 8, TRUE)} |-> IF b1.err # "" THEN b1 ELSE
    Only([b2 \in {readUBits(b1.s, 8, TRUE)} |-> IF b2.err # "" THEN b2 ELSE
    Only([b3 \in {readUBits(b2.s, 8, TRUE)} |-> IF b3.err # "" THEN b3 ELSE
        Returned(Rewind(b3.s, changeOffset, 32),
                 Ushr(Or(Or(Or(b0.v, Shl(b1.v, 8)), Shl(b2.v, 16)), Shl(b3.v, 24)), 0))])])])])

\* writeUInt32 with the most significant byte first
writeUInt32BigEndian(s, value) ==
    Only([w0 \in {writeUBits(s, And(Shr(value, 24), 255), 8)} |-> IF w0.err # "" THEN w0 ELSE
    Only([w1 \in {writeUBits(w0.s, And(Shr(value, 16), 255), 8)} |-> IF w1.err # "" THEN w1 ELSE
    Only([w2 \in {writeUBits(w1.s, And(Shr(value, 8), 255), 8)} |-> IF w2.err # "" THEN w2 ELSE
        writeUBits(w2.s, And(value, 255), 8)])])])

writeUInt32(s, value) ==
    Only([w0 \in {writeUBits(s, And(value, 255), 8)} |-> IF w0.err # "" THEN w0 ELSE
    Only([w1 \in {writeUBits(w0.s, And(Shr(value, 8), 255), 8)} |-> IF w1.err # "" THEN w1 ELSE
    Only([w2 \in {writeUBits(w1.s, And(Shr(value, 16), 255), 8)} |-> IF w2.err # "" THEN w2 ELSE
        writeUBits(w2.s, And(Shr(value, 24), 255), 8)])])])

---------------------------------------------------------------------------
(* IEEE-754 binary32, as DataView.getFloat32 / setFloat32 (little-endian) *)

Fin(s, m, e) == [k |-> "fin", s |-> s, m |-> m, e |-> e]
Inf(s) == [k |-> "inf", s |-> s, m |-> 0, e |-> 0]
NaN == [k |-> "nan", s |-> 0, m |-> 0, e |-> 0]

\* m * 2^e with the factors of two moved from m to e (m > 0)
RECURSIVE Normal(_, _, _)
Normal(s, m, e) == IF m % 2 = 0 THEN Normal(s, m \div 2, e + 1) ELSE Fin(s, m, e)

\* the number of bits of m > 0
RECURSIVE BitLen(_)
BitLen(m) == IF m = 0 THEN 0 ELSE 1 + BitLen(m \div 2)

\* getFloat32(0, true) of the four bytes temp
getFloat32(temp) ==
    LET sign == temp[4] \div 128
        exp == (temp[4] % 128) * 2 + temp[3] \div 128
        mant == (temp[3] % 128) * 65536 + temp[2] * 256 + temp[1]
    IN  IF exp = 255 THEN (IF mant = 0 THEN Inf(sign) ELSE NaN)
        ELSE IF exp = 0 THEN (IF mant = 0 THEN Fin(sign, 0, 0) ELSE Normal(sign, mant, -149))
        ELSE Normal(sign, 8388608 + mant, exp - 150)

\* the bytes of a binary32 with the fields sign, exp, mant
F32Bytes(sign, exp, mant) ==
    << mant % 256,
       (mant \div 256) % 256,
       (exp % 2) * 128 + mant \div 65536,
       sign * 128 + exp \div 2 >>

\* m / 2^shift rounded to the nearest integer, ties to even (0 < shift <= 30)
RoundShift(m, shift) ==
    LET q == m \div (2 ^ shift)
        r == m % (2 ^ shift)
        half == 2 ^ (shift - 1)
    IN  IF r > half \/ (r = half /\ q % 2 = 1) THEN q + 1 ELSE q

\* setFloat32(0, value, true): the four bytes of value rounded to binary32.
\* nanBytes is the encoding the engine gives NaN (ECMAScript leaves it to the
\* implementation: NumericToRawBytes).
setFloat32(value, nanBytes) ==
    IF value.k = "nan" THEN nanBytes
    ELSE IF value.k = "inf" THEN F32Bytes(value.s, 255, 0)
    ELSE IF value.m = 0 THEN F32Bytes(value.s, 0, 0)
    ELSE LET top == value.e + BitLen(value.m) - 1
             q0 == IF top - 23 > -149 THEN top - 23 ELSE -149
             sig0 == IF value.e >= q0 THEN value.m * (2 ^ (value.e - q0))
                     ELSE IF q0 - value.e > 30 THEN 0
                     ELSE RoundShift(value.m, q0 - value.e)
             carry == sig0 = 16777216
             sig == IF carry THEN 8388608 ELSE sig0
             q == IF carry THEN q0 + 1 ELSE q0
         IN  IF sig < 8388608 THEN F32Bytes(value.s, 0, sig)
             ELSE IF q + 150 >= 255 THEN F32Bytes(value.s, 255, 0)
             ELSE F32Bytes(value.s, q + 150, sig - 8388608)

\* the quiet NaN encodings an engine stores for NaN
QuietNaNs == { <<0, 0, 192, 127>>, <<0, 0, 192, 255>> }

readFloat32(s, changeOffset) ==
    Only([t0 \in {readUBits(s, 8, TRUE)} |-> IF t0.err # "" THEN t0 ELSE
    Only([t1 \in {readUBits(t0.s, 8, TRUE)} |-> IF t1.err # "" THEN t1 ELSE
    Only([t2 \in {readUBits(t1.s, 8, TRUE)} |-> IF t2.err # "" THEN t2 ELSE
    Only([t3 \in {readUBits(t2.s, 8, TRUE)} |-> IF t3.err # "" THEN t3 ELSE
        Returned(Rewind(t3.s, changeOffset, 32),
                 getFloat32(<<t0.v % 256, t1.v % 256, t2.v % 256, t3.v % 256>>))])])])])

writeFloat32(s, value, nanBytes) ==
    Only([temp \in {setFloat32(value, nanBytes)} |->
    Only([w0 \in {writeUBits(s, temp[1], 8)} |-> IF w0.err # "" THEN w0 ELSE
    Only([w1 \in {writeUBits(w0.s, temp[2], 8)} |-> IF w1.err # "" THEN w1 ELSE
    Only([w2 \in {writeUBits(w1.s, temp[3], 8)} |-> IF w2.err # "" THEN w2 ELSE
        writeUBits(w2.s, temp[4], 8)])])])])

---------------------------------------------------------------------------
(* characters and strings *)

readString8(s, changeOffset) ==
    Only([charCode \in {readUBits(s, 8, TRUE)} |-> IF charCode.err # "" THEN charCode ELSE
        Returned(Rewind(charCode.s, changeOffset, 8), << charCode.v % 65536 >>)])

\* str.charCodeAt(0) || 0
CharCodeAt0(str) == IF Len(str) = 0 THEN 0 ELSE str[1]

writeString8(s, str) == writeUBits(s, CharCodeAt0(str), 8)

\* readString32's loop: i characters read so far into result
RECURSIVE readString32Loop(_, _, _)
readString32Loop(s, result, i) ==
    IF i >= 4 THEN Returned(s, result)
    ELSE Only([r \in {readString8(s, TRUE)} |-> IF r.err # "" THEN r ELSE
             readString32Loop(r.s, result \o r.v, i + 1)])

readString32(s, changeOffset) ==
    Only([result \in {readString32Loop(s, <<>>, 0)} |-> IF result.err # "" THEN result ELSE
        Returned(Rewind(result.s, changeOffset, 32), result.v)])

\* str[i] || '\0'
CharOr0(str, i) == IF i < Len(str) THEN << str[i + 1] >> ELSE << 0 >>

RECURSIVE writeString32Loop(_, _, _)
writeString32Loop(s, str, i) ==
    IF i >= 4 THEN Returned(s, 0)
    ELSE Only([w \in {writeString8(s, CharOr0(str, i))} |-> IF w.err # "" THEN w ELSE
             writeString32Loop(w.s, str, i + 1)])

writeString32(s, str) == writeString32Loop(s, str, 0)

RECURSIVE readString32ArrayLoop(_, _, _, _)
readString32ArrayLoop(s, arr, i, length) ==
    IF i >= length THEN Returned(s, arr)
    ELSE Only([r \in {readString32(s, TRUE)} |-> IF r.err # "" THEN r ELSE
             readString32ArrayLoop(r.s, Append(arr, r.v), i + 1, length)])

readString32Array(s, length) == readString32ArrayLoop(s, <<>>, 0, length)

RECURSIVE writeString32ArrayLoop(_, _, _)
writeString32ArrayLoop(s, arr, i) ==
    IF i > Len(arr) THEN Returned(s, 0)
    ELSE Only([w \in {writeString32(s, arr[i])} |-> IF w.err # "" THEN w ELSE
             writeString32ArrayLoop(w.s, arr, i + 1)])

writeString32Array(s, arr) == writeString32ArrayLoop(s, arr, 1)

\* getBuffer with Math.floor in the place of Math.ceil
getBufferFloor(s) ==
    IF ~s.isWriting THEN Thrown(s, ErrGetInReadMode)
    ELSE Returned(s, SubSeq(s.buffer, 1, s.bitPosition \div 8))

\* getBuffer without the slice: the whole capacity
getBufferUnsliced(s) ==
    IF ~s.isWriting THEN Thrown(s, ErrGetInReadMode) ELSE Returned(s, s.buffer)

getBuffer(s) ==
    IF ~s.isWriting THEN Thrown(s, ErrGetInReadMode)
    ELSE Returned(s, SubSeq(s.buffer, 1, CeilDiv8(s.bitPosition)))

---------------------------------------------------------------------------
(* TerrainUtil *)

\* heights are carried in sixteenths
HeightDen == 4 * 4

\* Math.floor in the place of Math.round
MathRoundDown(num, den) == num \div den

\* Math.round(num / den): the nearest integer, a tie towards +Infinity
MathRound(num, den) == (2 * num + den) \div (2 * den)

NoDoc == [header |-> <<>>, corners |-> <<>>]

\* the number -Math.floor(n / 2) * 128 of generateEmptyW3e (-0 when n < 2)
OriginOf(n) == IF n \div 2 = 0 THEN Fin(1, 0, 0) ELSE Normal(1, (n \div 2) * 128, 0)

EmptyCorner(i, width) ==
    [ index |-> i, rowid |-> i \div width, colid |-> i % width,
      groundHeight |-> 0, waterHeight |-> 0, mapEdge |-> 0,
      groundTexture |-> 0, ramp |-> 0, water |-> 0, blight |-> 0, boundary |-> 0,
      groundVariation |-> 0, cliffVariation |-> 0, cliffTexture |-> 0,
      layerHeight |-> 2 ]

generateEmptyW3e(width, height, tileset) ==
    [ header |->
        [ fileId |-> <<87, 51, 69, 82>>,
          version |-> 11,
          baseTileset |-> tileset,
          hasCustomTileset |-> 0,
          tilePaletteCount |-> 1,
          tilePalette |-> << <<79, 97, 98, 121>> >>,
          cliffTilePaletteCount |-> 1,
          cliffTilePalette |-> << <<79, 99, 108, 109>> >>,
          width |-> width,
          height |-> height,
          x |-> OriginOf(width),
          y |-> OriginOf(height) ],
      corners |-> [i \in 1..(width * height) |-> EmptyCorner(i - 1, width)] ]

\* the corner decodeW3e builds from the five values it read
UnpackCorner(i, width, gHeight, wHeightRaw, byte4, byte5, byte6) ==
    [ index |-> i,
      rowid |-> i \div width,
      colid |-> i % width,
      groundHeight |-> ((gHeight - 8192) * HeightDen) \div 4,
      waterHeight |-> ((And(wHeightRaw, 16383) - 8192) * HeightDen) \div 4,
      mapEdge |-> Ushr(And(wHeightRaw, 49152), 14),
      groundTexture |-> And(byte4, 15),
      ramp |-> Shr(And(byte4, 16), 4),
      water |-> Shr(And(byte4, 32), 5),
      blight |-> Shr(And(byte4, 64), 6),
      boundary |-> Shr(And(byte4, 128), 7),
      groundVariation |-> And(byte5, 31),
      cliffVariation |-> Shr(And(byte5, 224), 5),
      cliffTexture |-> And(byte6, 15),
      layerHeight |-> Shr(And(byte6, 240), 4) ]

\* the corner loop of decodeW3e: [s, err, v] with v the corners read
RECURSIVE decodeCorners(_, _, _, _, _)
decodeCorners(s, corners, i, totalCorners, width) ==
    IF i >= totalCorners THEN Returned(s, corners)
    ELSE
    Only([gHeight \in {readUInt16(s, TRUE)} |-> IF gHeight.err # "" THEN gHeight ELSE
    Only([wHeightRaw \in {readUInt16(gHeight.s, TRUE)} |->
        IF wHeightRaw.err # "" THEN wHeightRaw ELSE
    Only([byte4 \in {readUInt8(wHeightRaw.s, TRUE)} |-> IF byte4.err # "" THEN byte4 ELSE
    Only([byte5 \in {readUInt8(byte4.s, TRUE)} |-> IF byte5.err # "" THEN byte5 ELSE
    Only([byte6 \in {readUInt8(byte5.s, TRUE)} |-> IF byte6.err # "" THEN byte6 ELSE
        decodeCorners(byte6.s,
            Append(corners, UnpackCorner(i, width, gHeight.v, wHeightRaw.v,
                                         byte4.v, byte5.v, byte6.v)),
            i + 1, totalCorners, width)])])])])])

\* what decodeW3e does when a call on the bitstream throws: the exception goes on
\* to the caller and there is no document
NoW3e(r) == [err |-> r.err, doc |-> NoDoc]

\* decodeW3e(buffer): [err, doc]
decodeW3e(buf) ==
    Only([fileId \in {readString32(NewReader(buf), TRUE)} |->
        IF fileId.err # "" THEN NoW3e(fileId) ELSE
    Only([version \in {readUInt32(fileId.s, TRUE)} |->
        IF version.err # "" THEN NoW3e(version) ELSE
    Only([baseTileset \in {readString8(version.s, TRUE)} |->
        IF baseTileset.err # "" THEN NoW3e(baseTileset) ELSE
    Only([hasCustomTileset \in {readUInt32(baseTileset.s, TRUE)} |->
        IF hasCustomTileset.err # "" THEN NoW3e(hasCustomTileset) ELSE
    Only([tilePaletteCount \in {readUInt32(hasCustomTileset.s, TRUE)} |->
        IF tilePaletteCount.err # "" THEN NoW3e(tilePaletteCount) ELSE
    Only([tilePalette \in {readString32Array(tilePaletteCount.s, tilePaletteCount.v)} |->
        IF tilePalette.err # "" THEN NoW3e(tilePalette) ELSE
    Only([cliffTilePaletteCount \in {readUInt32(tilePalette.s, TRUE)} |->
        IF cliffTilePaletteCount.err # "" THEN NoW3e(cliffTilePaletteCount) ELSE
    Only([cliffTilePalette \in
            {readString32Array(cliffTilePaletteCount.s, cliffTilePaletteCount.v)} |->
        IF cliffTilePalette.err # "" THEN NoW3e(cliffTilePalette) ELSE
    Only([width \in {readUInt32(cliffTilePalette.s, TRUE)} |->
        IF width.err # "" THEN NoW3e(width) ELSE
    Only([height \in {readUInt32(width.s, TRUE)} |->
        IF height.err # "" THEN NoW3e(height) ELSE
    Only([x \in {readFloat32(height.s, TRUE)} |->
        IF x.err # "" THEN NoW3e(x) ELSE
    Only([y \in {readFloat32(x.s, TRUE)} |->
        IF y.err # "" THEN NoW3e(y) ELSE
    Only([corners \in {decodeCorners(y.s, <<>>, 0, width.v * height.v, width.v)} |->
        IF corners.err # "" THEN NoW3e(corners) ELSE
        [ err |-> "",
          doc |->
            [ header |->
                [ fileId |-> fileId.v,
                  version |-> version.v,
                  baseTileset |-> baseTileset.v,
                  hasCustomTileset |-> hasCustomTileset.v,
                  tilePaletteCount |-> tilePaletteCount.v,
                  tilePalette |-> tilePalette.v,
                  cliffTilePaletteCount |-> cliffTilePaletteCount.v,
                  cliffTilePalette |-> cliffTilePalette.v,
                  width |-> width.v,
                  height |-> height.v,
                  x |-> x.v,
                  y |-> y.v ],
              corners |-> corners.v ] ]
    ])])])])])])])])])])])])])

\* Math.round(corner.groundHeight * 4 + 8192)
GHeightRaw(corner) == MathRound(corner.groundHeight * 4 + 8192 * HeightDen, HeightDen)

\* WHeightRaw with mapEdge put one bit too low
WHeightRawEdgeAt13(corner) ==
    Or(And(MathRound(corner.waterHeight * 4 + 8192 * HeightDen, HeightDen), 16383),
       Shl(corner.mapEdge, 13))

\* (Math.round(corner.waterHeight * 4 + 8192) & 0x3FFF) | (corner.mapEdge << 14)
WHeightRaw(corner) ==
    Or(And(MathRound(corner.waterHeight * 4 + 8192 * HeightDen, HeightDen), 16383),
       Shl(corner.mapEdge, 14))

Byte4(corner) ==
    Or(Or(Or(Or(And(corner.groundTexture, 15),
                Shl(corner.ramp, 4)),
             Shl(corner.water, 5)),
          Shl(corner.blight, 6)),
       Shl(corner.boundary, 7))

\* Byte5 with cliffVariation put one bit too low
Byte5ShiftedBy4(corner) == Or(And(corner.groundVariation, 31), Shl(corner.cliffVariation, 4))

Byte5(corner) == Or(And(corner.groundVariation, 31), Shl(corner.cliffVariation, 5))

\* Byte6 with layerHeight put one bit too low
Byte6ShiftedBy3(corner) == Or(And(corner.cliffTexture, 15), Shl(corner.layerHeight, 3))

Byte6(corner) == Or(And(corner.cliffTexture, 15), Shl(corner.layerHeight, 4))

\* the corner loop of encodeW3e
RECURSIVE encodeCorners(_, _, _)
encodeCorners(s, corners, i) ==
    IF i > Len(corners) THEN Returned(s, 0)
    ELSE
    Only([corner \in {corners[i]} |->
    Only([g \in {writeUInt16(s, GHeightRaw(corner))} |-> IF g.err # "" THEN g ELSE
    Only([w \in {writeUInt16(g.s, WHeightRaw(corner))} |-> IF w.err # "" THEN w ELSE
    Only([b4 \in {writeUInt8(w.s, Byte4(corner))} |-> IF b4.err # "" THEN b4 ELSE
    Only([b5 \in {writeUInt8(b4.s, Byte5(corner))} |-> IF b5.err # "" THEN b5 ELSE
    Only([b6 \in {writeUInt8(b5.s, Byte6(corner))} |-> IF b6.err # "" THEN b6 ELSE
        encodeCorners(b6.s, corners, i + 1)])])])])])])

\* what encodeW3e does when a call on the bitstream throws: the exception goes on
\* to the caller and there are no bytes
NoBytes(r) == [err |-> r.err, bytes |-> <<>>]

\* encodeW3e(w3e): [err, bytes]; nanBytes is the engine's encoding of NaN
encodeW3e(doc, nanBytes) ==
    Only([h \in {doc.header} |->
    Only([w1 \in {writeString32(NewWriter, h.fileId)} |->
        IF w1.err # "" THEN NoBytes(w1) ELSE
    Only([w2 \in {writeUInt32(w1.s, h.version)} |->
        IF w2.err # "" THEN NoBytes(w2) ELSE
    Only([w3 \in {writeString8(w2.s, h.baseTileset)} |->
        IF w3.err # "" THEN NoBytes(w3) ELSE
    Only([w4 \in {writeUInt32(w3.s, h.hasCustomTileset)} |->
        IF w4.err # "" THEN NoBytes(w4) ELSE
    Only([w5 \in {writeUInt32(w4.s, h.tilePaletteCount)} |->
        IF w5.err # "" THEN NoBytes(w5) ELSE
    Only([w6 \in {writeString32Array(w5.s, h.tilePalette)} |->
        IF w6.err # "" THEN NoBytes(w6) ELSE
    Only([w7 \in {writeUInt32(w6.s, h.cliffTilePaletteCount)} |->
        IF w7.err # "" THEN NoBytes(w7) ELSE
    Only([w8 \in {writeString32Array(w7.s, h.cliffTilePalette)} |->
        IF w8.err # "" THEN NoBytes(w8) ELSE
    Only([w9 \in {writeUInt32(w8.s, h.width)} |->
        IF w9.err # "" THEN NoBytes(w9) ELSE
    Only([w10 \in {writeUInt32(w9.s, h.height)} |->
        IF w10.err # "" THEN NoBytes(w10) ELSE
    Only([w11 \in {writeFloat32(w10.s, h.x, nanBytes)} |->
        IF w11.err # "" THEN NoBytes(w11) ELSE
    Only([w12 \in {writeFloat32(w11.s, h.y, nanBytes)} |->
        IF w12.err # "" THEN NoBytes(w12) ELSE
    Only([w13 \in {encodeCorners(w12.s, doc.corners, 1)} |->
        IF w13.err # "" THEN NoBytes(w13) ELSE
    Only([out \in {getBuffer(w13.s)} |->
        IF out.err # "" THEN NoBytes(out) ELSE [err |-> "", bytes |-> out.v]
    ])])])])])])])])])])])])])])])

---------------------------------------------------------------------------
(* App: the palette, the image mapping and the brush *)

\* the colours of INITIAL_PALETTE, slot 0 first
InitialColors ==
    << <<35, 48, 48, 48, 48, 48, 48>>,   \* "#000000"
       <<35, 49, 97, 49, 97, 49, 97>>,   \* "#1a1a1a"
       <<35, 56, 98, 52, 53, 49, 51>>,   \* "#8b4513"
       <<35, 53, 100, 50, 57, 48, 54>>,   \* "#5d2906"
       <<35, 55, 48, 52, 50, 49, 52>>,   \* "#704214"
       <<35, 50, 50, 56, 98, 50, 50>>,   \* "#228b22"
       <<35, 101, 100, 99, 57, 97, 102>>,   \* "#edc9af"
       <<35, 52, 98, 53, 51, 50, 48>>,   \* "#4b5320"
       <<35, 56, 48, 56, 48, 56, 48>>,   \* "#808080"
       <<35, 50, 102, 52, 102, 52, 102>>,   \* "#2f4f4f"
       <<35, 100, 99, 100, 99, 100, 99>>,   \* "#dcdcdc"
       <<35, 102, 102, 48, 48, 48, 48>>,   \* "#ff0000"
       <<35, 56, 98, 48, 48, 48, 48>>,   \* "#8b0000"
       <<35, 102, 102, 102, 102, 102, 102>>,   \* "#ffffff"
       <<35, 48, 48, 56, 98, 56, 98>>,   \* "#008b8b"
       <<35, 48, 48, 52, 100, 52, 100>>    \* "#004d4d"
    >>

\* the mappings state as useState builds it: 16 slots, none active
InitialMappings ==
    [i \in 1..16 |-> [slotIndex |-> i - 1, color |-> InitialColors[i], active |-> FALSE]]

\* the character of the hexadecimal digit d, as toString(16) writes it
HexChar(d) == IF d < 10 THEN 48 + d ELSE 87 + d

\* "#" + ("000000" + ((pixel[0] << 16) | (pixel[1] << 8) | pixel[2]).toString(16)).slice(-6)
PixelHex(pixel) ==
    Only([n \in {Or(Or(Shl(pixel.r, 16), Shl(pixel.g, 8)), pixel.b)} |->
        <<35>> \o [i \in 1..6 |-> HexChar((n \div (16 ^ (6 - i))) % 16)]])

\* the value of a character as a hexadecimal digit of [a-f\d] with the flag i,
\* -1 for any other character
HexValue(c) ==
    IF c >= 48 /\ c <= 57 THEN c - 48
    ELSE IF c >= 97 /\ c <= 102 THEN c - 87
    ELSE IF c >= 65 /\ c <= 70 THEN c - 55
    ELSE -1

hexToRgb(hex) ==
    LET digits == IF Len(hex) > 0 /\ hex[1] = 35 THEN Tail(hex) ELSE hex
        result == Len(digits) = 6 /\ \A i \in 1..6 : HexValue(digits[i]) >= 0
        parseInt(i) == 16 * HexValue(digits[i]) + HexValue(digits[i + 1])
    IN  IF result THEN [r |-> parseInt(1), g |-> parseInt(3), b |-> parseInt(5)]
        ELSE [r |-> 0, g |-> 0, b |-> 0]

\* mappings.filter(m => m.active).map(m => ({...m, rgb: hexToRgb(m.color)}))
IsActive(m) == m.active
activeMappings(maps) ==
    Only([kept \in {SelectSeq(maps, IsActive)} |->
        [i \in 1..Len(kept) |->
            [slotIndex |-> kept[i].slotIndex, color |-> kept[i].color,
             active |-> kept[i].active, rgb |-> hexToRgb(kept[i].color)]]])

\* minDistance before any mapping has been compared: -1 stands for Infinity
Infinity == -1

\* one turn of the loop over activeMappings: best is [minDistance, bestSlot]
\* with a first mapping as near as a later one kept
nearestStepLastWins(best, m, pixel) ==
    LET dr == pixel.r - m.rgb.r
        dg == pixel.g - m.rgb.g
        db == pixel.b - m.rgb.b
        dist == dr * dr + dg * dg + db * db
    IN  IF best.minDistance = Infinity \/ dist <= best.minDistance
        THEN [minDistance |-> dist, bestSlot |-> m.slotIndex]
        ELSE best

\* one turn of the loop over activeMappings: best is [minDistance, bestSlot]
nearestStep(best, m, pixel) ==
    LET dr == pixel.r - m.rgb.r
        dg == pixel.g - m.rgb.g
        db == pixel.b - m.rgb.b
        dist == dr * dr + dg * dg + db * db
    IN  IF best.minDistance = Infinity \/ dist < best.minDistance
        THEN [minDistance |-> dist, bestSlot |-> m.slotIndex]
        ELSE best

RECURSIVE nearestLoop(_, _, _, _)
nearestLoop(best, active, k, pixel) ==
    IF k > Len(active) THEN best
    ELSE Only([next \in {nearestStep(best, active[k], pixel)} |->
             nearestLoop(next, active, k + 1, pixel)])

\* { ...corner, groundTexture } with the other fields of the corner lost
setGroundTextureBare(corner, groundTexture) ==
    [EmptyCorner(0, 1) EXCEPT !.groundTexture = groundTexture]

\* { ...corner, groundTexture }
setGroundTexture(corner, groundTexture) == [corner EXCEPT !.groundTexture = groundTexture]

ErrNoCorner == "TypeError: Cannot read properties of undefined (reading 'groundTexture')"

\* the row and column loops of applyImageToTerrain, cell after cell in the
\* order of the loops (cell = row * width + col): [err, corners]; imgData holds
\* one [r, g, b] per pixel, pixel imgRow * width + col at index + 1
RECURSIVE applyLoop(_, _, _, _, _, _)
applyLoop(corners, cell, width, height, imgData, active) ==
    IF cell >= width * height THEN [err |-> "", corners |-> corners]
    ELSE LET row == cell \div width
             col == cell % width
             imgRow == (height - 1) - row
             pixel == imgData[imgRow * width + col + 1]
         IN  IF cell >= Len(corners) THEN [err |-> ErrNoCorner, corners |-> corners]
             ELSE Only([best \in {nearestLoop([minDistance |-> Infinity,
                                               bestSlot |-> corners[cell + 1].groundTexture],
                                              active, 1, pixel)} |->
                 Only([next \in {[corners EXCEPT ![cell + 1] =
                                     setGroundTexture(corners[cell + 1], best.bestSlot)]} |->
                     applyLoop(next, cell + 1, width, height, imgData, active)])])

\* applyImageToTerrain with a terrain and a source image: [err, doc, set]; set
\* tells that setTerrain was called
applyImageToTerrain(terrain, maps, imgData) ==
    Only([active \in {activeMappings(maps)} |->
        IF Len(active) = 0 THEN [err |-> "", doc |-> terrain, set |-> FALSE]
        ELSE Only([r \in {applyLoop(terrain.corners, 0, terrain.header.width,
                                     terrain.header.height, imgData, active)} |->
                 IF r.err # "" THEN [err |-> r.err, doc |-> terrain, set |-> FALSE]
                 ELSE [err |-> "", doc |-> [terrain EXCEPT !.corners = r.corners],
                       set |-> TRUE]])])

\* the side of a cell of the terrain canvas, in canvas pixels
cellSize == 8

\* the indices idx = tr * width + tc the brush loops of handleTerrainPaint reach
BrushCells(width, height, col, row, halfBrush) ==
    { tr * width + tc :
        tc \in { c \in (col - halfBrush)..(col + halfBrush) : c >= 0 /\ c < width },
        tr \in { r \in (row - halfBrush)..(row + halfBrush) : r >= 0 /\ r < height } }

\* handleTerrainPaint with a terrain and the left button down: [err, doc, set];
\* x and y are the whole parts of the canvas coordinates of the pointer
handleTerrainPaint(terrain, brush, texture, x, y) ==
    LET width == terrain.header.width
        height == terrain.header.height
        col == x \div cellSize
        row == (height - 1) - (y \div cellSize)
        halfBrush == brush \div 2
        reached == BrushCells(width, height, col, row, halfBrush)
        corners == terrain.corners
    IN  IF ~(col >= 0 /\ col < width /\ row >= 0 /\ row < height)
        THEN [err |-> "", doc |-> terrain, set |-> FALSE]
        ELSE IF \E idx \in reached : idx >= Len(corners)
        THEN [err |-> ErrNoCorner, doc |-> terrain, set |-> FALSE]
        ELSE IF \A idx \in reached : corners[idx + 1].groundTexture = texture
        THEN [err |-> "", doc |-> terrain, set |-> FALSE]
        ELSE [err |-> "",
              doc |-> [terrain EXCEPT !.corners =
                          [k \in 1..Len(corners) |->
                              IF (k - 1) \in reached
                                 /\ corners[k].groundTexture # texture
                              THEN setGroundTexture(corners[k], texture)
                              ELSE corners[k]]],
              set |-> TRUE]

NoEdit == [op |-> "", err |-> "", set |-> FALSE, mappings |-> <<>>, imgData |-> <<>>]

\* the state of App after its first render, no picking under way
InitApp ==
    /\ mappings = InitialMappings
    /\ selectedTexture = 0
    /\ brushSize = 1
    /\ pickingSlot = -1
    /\ edit = NoEdit
    /\ edits = 0
    /\ paletteOps = 0

---------------------------------------------------------------------------
(* The stream as a state machine: one BitStream and the calls made on it *)

\* the longest buffer handed to a read-bound stream, in bytes
MaxReadLen == 5
\* the number of calls made on one stream
MaxCalls == 2

\* the buffers handed to a read-bound stream: the first n bytes of two byte
\* patterns, for the empty buffer, one byte and the longest buffer
BytePatterns == << <<165, 60, 255, 1, 128>>, <<255, 129, 7, 90, 127>> >>
ReadBuffers ==
    { [i \in 1..n |-> BytePatterns[k][((i - 1) % 5) + 1]] : n \in {0, 1, MaxReadLen}, k \in 1..2 }
BitWidths == {0, 1, 3, 8, 13, 32}
\* the numbers given to writeUBits and to the typed writes, as their ToInt32: the
\* ends of each type's range, values inside it and values outside it
MinInt32 == -2147483647 - 1
WriteValues == {-1, 42405}
Int8Values == {127, -128, 255, 42405}
Int16Values == {32767, -32768, 65535, 16777215}
Int32Values == {2147483647, MinInt32, -1, 42405}
TagSamples == { <<0, 255, 1, 128>>, <<90>> }
TagArrays == { <<>>, << <<79, 97, 98, 121>> >>, << <<90>>, <<0, 255, 1, 128>> >> }
NumSamples ==
    { Fin(0, 0, 0), Fin(1, 0, 0), Fin(1, 1, 7), Fin(0, 3, -1), Fin(0, 1, -149),
      Fin(0, 16777215, 104), Inf(0), Inf(1), NaN }

\* bit j of the int32 v (bit 0 the least significant)
BitOf(v, j) == IF j = 31 THEN (IF v < 0 THEN 1 ELSE 0) ELSE (v \div (2 ^ j)) % 2
\* the low n bits of v, the most significant first (n <= 32)
LowBits(v, n) == [i \in 1..n |-> BitOf(v, n - i)]
\* the low k bytes of v, the least significant byte first, each as its 8 bits
BytesLowFirst(v, k) ==
    [i \in 1..(8 * k) |-> BitOf(v, 8 * ((i - 1) \div 8) + 7 - ((i - 1) % 8))]
\* the bits of the bytes of a sequence, in order
RECURSIVE BitsOfBytes(_)
BitsOfBytes(bytes) ==
    IF bytes = <<>> THEN <<>> ELSE LowBits(bytes[1], 8) \o BitsOfBytes(Tail(bytes))
\* the four characters of a tag, a missing one as 0, each as its low 8 bits
TagBits(str) == BitsOfBytes([i \in 1..4 |-> IF i <= Len(str) THEN str[i] ELSE 0])
RECURSIVE TagArrayBits(_)
TagArrayBits(arr) ==
    IF arr = <<>> THEN <<>> ELSE TagBits(arr[1]) \o TagArrayBits(Tail(arr))

NoCall ==
    [ op |-> "", kind |-> "", n |-> 0, peek |-> FALSE, err |-> "", v |-> 0, arg |-> 0,
      pre |-> 0, buf |-> <<>>, mode |-> FALSE ]

Stream == [buffer |-> buffer, bitPosition |-> bitPosition, isWriting |-> isWriting]

\* the stream takes the state r leaves it in, and ret records the call: what was
\* called and with what argument, what it threw or returned, and the cursor, the
\* buffer and the mode before it; a write that returned adds the bits it was asked
\* to store to written
Do(op, kind, n, peek, arg, asked, r) ==
    /\ buffer' = r.s.buffer
    /\ bitPosition' = r.s.bitPosition
    /\ isWriting' = r.s.isWriting
    /\ ret' = [op |-> op, kind |-> kind, n |-> n, peek |-> peek,
               err |-> r.err, v |-> r.v, arg |-> arg,
               pre |-> bitPosition, buf |-> buffer, mode |-> isWriting]
    /\ written' = (IF r.err = "" THEN written \o asked ELSE written)
    /\ UNCHANGED codecVars
    /\ UNCHANGED appVars

\* a read or a getBuffer, one of the MaxCalls calls made on the stream
Call(op, kind, n, peek, r) ==
    /\ calls < MaxCalls
    /\ calls' = calls + 1
    /\ Do(op, kind, n, peek, 0, <<>>, r)

\* a write of n bits, one of the MaxCalls calls made on the stream
Write(op, n, arg, asked, r) ==
    /\ calls < MaxCalls
    /\ calls' = calls + 1
    /\ Do(op, "write", n, FALSE, arg, asked, r)

InitStream ==
    /\ isWriting \in BOOLEAN
    /\ buffer \in (IF isWriting THEN {NewWriter.buffer} ELSE ReadBuffers)
    /\ bitPosition = 0
    /\ ret = NoCall
    /\ calls = 0
    /\ written = <<>>
    /\ w3e = NoDoc /\ file = <<>> /\ orig = <<>> /\ src = "none"
    /\ phase = "start" /\ thrown = ""
    /\ InitApp

ReadUBits ==
    \E bits \in BitWidths, peek \in BOOLEAN :
        Call("readUBits", "read", bits, peek, readUBits(Stream, bits, ~peek))
ReadUInt8 ==
    \E peek \in BOOLEAN : Call("readUInt8", "read", 8, peek, readUInt8(Stream, ~peek))
ReadInt8 ==
    \E peek \in BOOLEAN : Call("readInt8", "read", 8, peek, readInt8(Stream, ~peek))
ReadUInt16 ==
    \E peek \in BOOLEAN : Call("readUInt16", "read", 16, peek, readUInt16(Stream, ~peek))
ReadInt16 ==
    \E peek \in BOOLEAN : Call("readInt16", "read", 16, peek, readInt16(Stream, ~peek))
ReadUInt32 ==
    \E peek \in BOOLEAN : Call("readUInt32", "read", 32, peek, readUInt32(Stream, ~peek))
ReadFloat32 ==
    \E peek \in BOOLEAN : Call("readFloat32", "read", 32, peek, readFloat32(Stream, ~peek))
ReadString8 ==
    \E peek \in BOOLEAN : Call("readString8", "read", 8, peek, readString8(Stream, ~peek))
ReadString32 ==
    \E peek \in BOOLEAN : Call("readString32", "read", 32, peek, readString32(Stream, ~peek))
ReadString32Array ==
    \E length \in 0..1 :
        Call("readString32Array", "read", 32 * length, FALSE, readString32Array(Stream, length))

WriteUBits ==
    \E bits \in BitWidths, value \in WriteValues :
        Write("writeUBits", bits, value, LowBits(value, bits), writeUBits(Stream, value, bits))
WriteUInt8 ==
    \E value \in Int8Values :
        Write("writeUInt8", 8, value, BytesLowFirst(value, 1), writeUInt8(Stream, value))
WriteInt8 ==
    \E value \in Int8Values :
        Write("writeInt8", 8, value, BytesLowFirst(value, 1), writeInt8(Stream, value))
WriteUInt16 ==
    \E value \in Int16Values :
        Write("writeUInt16", 16, value, BytesLowFirst(value, 2), writeUInt16(Stream, value))
WriteInt16 ==
    \E value \in Int16Values :
        Write("writeInt16", 16, value, BytesLowFirst(value, 2), writeInt16(Stream, value))
WriteUInt32 ==
    \E value \in Int32Values :
        Write("writeUInt32", 32, value, BytesLowFirst(value, 4), writeUInt32(Stream, value))
WriteFloat32 ==
    \E value \in {Fin(1, 1, 7), NaN}, nanBytes \in QuietNaNs :
        Write("writeFloat32", 32, value, BitsOfBytes(setFloat32(value, nanBytes)),
              writeFloat32(Stream, value, nanBytes))
WriteString8 ==
    \E str \in { <<>>, <<255, 79>> } :
        Write("writeString8", 8, str, LowBits(IF str = <<>> THEN 0 ELSE str[1], 8),
              writeString8(Stream, str))
WriteString32 ==
    \E str \in TagSamples :
        Write("writeString32", 32, str, TagBits(str), writeString32(Stream, str))
WriteString32Array ==
    \E arr \in TagArrays :
        Write("writeString32Array", 32 * Len(arr), arr, TagArrayBits(arr),
              writeString32Array(Stream, arr))
GetBuffer == Call("getBuffer", "get", 0, FALSE, getBuffer(Stream))

NextStream ==
    \/ ReadUBits \/ ReadUInt8 \/ ReadInt8 \/ ReadUInt16 \/ ReadInt16 \/ ReadUInt32
    \/ ReadFloat32 \/ ReadString8 \/ ReadString32 \/ ReadString32Array
    \/ WriteUBits \/ WriteUInt8 \/ WriteInt8 \/ WriteUInt16 \/ WriteInt16 \/ WriteUInt32
    \/ WriteFloat32 \/ WriteString8 \/ WriteString32 \/ WriteString32Array
    \/ GetBuffer

StreamSpec == InitStream /\ [][NextStream]_vars

---------------------------------------------------------------------------
(* A write-bound stream filled up to and beyond its initial capacity: the   *)
(* caller writes whole tag arrays, and around the point where the initial  *)
(* capacity is used up it also writes single values and calls getBuffer    *)

\* the number of tags in an array the caller fills the stream with
FillTags == 32
\* the number of such arrays written to one stream
MaxFills == 9
\* the number of single writes and getBuffer calls made on one stream
MaxGrowCalls == 2

FillBits == 32 * FillTags
FillArray == [i \in 1..FillTags |-> << 79, 97 + (i % 26), 255 - i, i >>]

\* the cursor is within one tag array below or above the initial capacity
NearInitialCapacity ==
    /\ bitPosition >= 8 * InitialSize - FillBits - 64
    /\ bitPosition < 8 * InitialSize + FillBits

InitGrow == InitStream /\ isWriting

FillTagArray ==
    /\ bitPosition \div FillBits < MaxFills
    /\ Do("writeString32Array", "write", FillBits, FALSE, FillArray, TagArrayBits(FillArray),
          writeString32Array(Stream, FillArray))
    /\ UNCHANGED calls

\* a single write or a getBuffer, one of the MaxGrowCalls made near the initial capacity
NearCall(op, kind, n, arg, asked, r) ==
    /\ NearInitialCapacity
    /\ calls < MaxGrowCalls
    /\ calls' = calls + 1
    /\ Do(op, kind, n, FALSE, arg, asked, r)

NearWriteUBits ==
    \E bits \in {1, 3, 13} :
        NearCall("writeUBits", "write", bits, 42405, LowBits(42405, bits),
                 writeUBits(Stream, 42405, bits))
NearGetBuffer == NearCall("getBuffer", "get", 0, 0, <<>>, getBuffer(Stream))

NextGrow == FillTagArray \/ NearWriteUBits \/ NearGetBuffer

GrowSpec == InitGrow /\ [][NextGrow]_vars

---------------------------------------------------------------------------
(* The codec as a state machine: a caller that holds a document or a file  *)
(* and calls encodeW3e and decodeW3e on it                                 *)

\* grids are up to MaxDim by MaxDim
MaxDim == 2
\* palettes hold up to MaxPalette tags
MaxPalette == 2
\* heights are sampled up to this many sixteenths around the ends and the middle
\* of their range
HeightSpread == 2

Fields ==
    { "groundHeight", "waterHeight", "mapEdge", "groundTexture", "ramp", "water",
      "blight", "boundary", "groundVariation", "cliffVariation", "cliffTexture",
      "layerHeight" }

\* the bit width Corner declares for each packed field (heights: of the raw value)
FieldWidth ==
    [ groundHeight |-> 16, waterHeight |-> 14, mapEdge |-> 2, groundTexture |-> 4,
      ramp |-> 1, water |-> 1, blight |-> 1, boundary |-> 1, groundVariation |-> 5,
      cliffVariation |-> 3, cliffTexture |-> 4, layerHeight |-> 4 ]

\* the height, in sixteenths, whose raw value is raw
HeightOf(raw) == (raw - 8192) * 4

\* the largest value each field can hold
FieldMax ==
    [ f \in Fields |->
        IF f \in {"groundHeight", "waterHeight"}
        THEN HeightOf(2 ^ FieldWidth[f] - 1)
        ELSE 2 ^ FieldWidth[f] - 1 ]

\* a cell is a corner without its place in the grid
ZeroCell == [f \in Fields |-> 0]
MaxCell == [f \in Fields |-> FieldMax[f]]

Place(cell, i, width) ==
    [ index |-> i, rowid |-> i \div width, colid |-> i % width,
      groundHeight |-> cell.groundHeight, waterHeight |-> cell.waterHeight,
      mapEdge |-> cell.mapEdge, groundTexture |-> cell.groundTexture,
      ramp |-> cell.ramp, water |-> cell.water, blight |-> cell.blight,
      boundary |-> cell.boundary, groundVariation |-> cell.groundVariation,
      cliffVariation |-> cell.cliffVariation, cliffTexture |-> cell.cliffTexture,
      layerHeight |-> cell.layerHeight ]

CellOf(corner) == [f \in Fields |-> corner[f]]

\* one field at its maximum, the others 0
IsolationCells == { [ZeroCell EXCEPT ![f] = FieldMax[f]] : f \in Fields }

\* heights in sixteenths near the low end, the middle and the high end of the
\* range whose largest raw value is maxRaw, and just outside the range
HeightsNear(maxRaw) ==
    UNION { { HeightOf(0) + d, d, HeightOf(maxRaw) - d, HeightOf(0) - d, HeightOf(maxRaw) + d }
            : d \in (-HeightSpread)..HeightSpread }

\* the heights among them that are multiples of 0.25 inside the range
QuartersNear(maxRaw) ==
    { h \in HeightsNear(maxRaw) : h % 4 = 0 /\ h >= HeightOf(0) /\ h <= HeightOf(maxRaw) }

HeightCells ==
    { [ZeroCell EXCEPT !.groundHeight = h] : h \in HeightsNear(65535) }
    \cup { [ZeroCell EXCEPT !.waterHeight = h] : h \in HeightsNear(16383) }

EdgeWaterCells ==
    { [ZeroCell EXCEPT !.mapEdge = e, !.waterHeight = h] :
        e \in 0..3, h \in QuartersNear(16383) }

\* one of the narrow fields beyond its width: one past its maximum with the others
\* all 0 or all at their maximum, or one bit above its width with the others 0
NarrowFields == Fields \ {"groundHeight", "waterHeight"}
BeyondCells ==
    { [c EXCEPT ![f] = FieldMax[f] + 1] : c \in {ZeroCell, MaxCell}, f \in NarrowFields }
    \cup { [ZeroCell EXCEPT ![f] = 2 * FieldMax[f] + 2] : f \in NarrowFields }

ScenarioCell == [ZeroCell EXCEPT !.groundTexture = 3, !.layerHeight = 2]

CellSamples ==
    IsolationCells \cup HeightCells \cup EdgeWaterCells \cup BeyondCells
    \cup {ZeroCell, MaxCell, ScenarioCell}

\* the j-th sample tag
Tag(j) == << (79 + 88 * j) % 256, (97 * j) % 256, 255 - j, j >>
PaletteOf(n, k) == [i \in 1..n |-> Tag(i + k)]

HeaderProfiles ==
    { [fileId |-> <<87, 51, 69, 82>>, version |-> 11, baseTileset |-> <<79>>,
       hasCustomTileset |-> 0],
      [fileId |-> <<0, 255, 1, 128>>, version |-> 2147483647, baseTileset |-> <<255>>,
       hasCustomTileset |-> 1],
      [fileId |-> <<74, 85, 78, 75>>, version |-> 0, baseTileset |-> <<0>>,
       hasCustomTileset |-> 16777216] }

XYSamples == { <<a, a>> : a \in NumSamples } \cup { <<Fin(1, 1, 7), Fin(0, 0, 0)>> }

Grid(cell, width, height) == [i \in 1..(width * height) |-> Place(cell, i - 1, width)]

\* a document with the given header fields and every corner holding cell
DocOf(p, tiles, cliffs, width, height, xy, cell) ==
    [ header |->
        [ fileId |-> p.fileId, version |-> p.version, baseTileset |-> p.baseTileset,
          hasCustomTileset |-> p.hasCustomTileset,
          tilePaletteCount |-> Len(tiles), tilePalette |-> tiles,
          cliffTilePaletteCount |-> Len(cliffs), cliffTilePalette |-> cliffs,
          width |-> width, height |-> height, x |-> xy[1], y |-> xy[2] ],
      corners |-> Grid(cell, width, height) ]

DefaultProfile ==
    [fileId |-> <<87, 51, 69, 82>>, version |-> 11, baseTileset |-> <<79>>,
     hasCustomTileset |-> 0]

\* the document of the 2 x 1 scenario
ScenarioDoc ==
    DocOf(DefaultProfile, << <<79, 97, 98, 121>> >>, << <<79, 99, 108, 109>> >>,
          2, 1, <<Fin(1, 1, 7), Fin(0, 0, 0)>>, ScenarioCell)

\* documents whose grid disagrees with width * height: one corner short, one
\* corner more
MiscountedDocs ==
    { [ScenarioDoc EXCEPT !.corners = << ScenarioDoc.corners[1] >>],
      [ScenarioDoc EXCEPT !.corners = Append(ScenarioDoc.corners, Place(MaxCell, 2, 2))] }

\* the documents: every header profile with every pair of palette sizes, every
\* origin, every cell on a 1 x 1 grid, every grid size, the empty documents and the
\* scenario
DocSamples ==
    { DocOf(p, PaletteOf(n, 0), PaletteOf(m, 3), 1, 1, <<Fin(1, 1, 7), Fin(0, 0, 0)>>,
            ScenarioCell) :
        p \in HeaderProfiles, n \in 0..MaxPalette, m \in 0..MaxPalette }
    \cup { DocOf(DefaultProfile, PaletteOf(1, 0), PaletteOf(1, 3), 1, 1, xy, ScenarioCell) :
            xy \in XYSamples }
    \cup { [ header |-> generateEmptyW3e(1, 1, <<79>>).header, corners |-> Grid(cell, 1, 1) ] :
            cell \in CellSamples }
    \cup { [ header |-> generateEmptyW3e(w, h, <<79>>).header, corners |-> Grid(cell, w, h) ] :
            w \in 0..MaxDim, h \in 0..MaxDim, cell \in {MaxCell, ScenarioCell} }
    \cup { generateEmptyW3e(w, h, <<79>>) : w \in 0..MaxDim, h \in 0..MaxDim }
    \cup { ScenarioDoc }
    \cup MiscountedDocs

\* the four bytes of a 32-bit word below 2^31, least significant first
LE32(v) == << v % 256, (v \div 256) % 256, (v \div 65536) % 256, v \div 16777216 >>

\* the word stored least significant byte first at offset off of b
WordAt(b, off) == b[off + 1] + 256 * b[off + 2] + 65536 * b[off + 3] + 16777216 * b[off + 4]

RECURSIVE FlattenFrom(_, _)
FlattenFrom(seqs, i) == IF i > Len(seqs) THEN <<>> ELSE seqs[i] \o FlattenFrom(seqs, i + 1)
Flatten(seqs) == FlattenFrom(seqs, 1)

\* a file laid out field after field: the header, then width * height records
FileOf(p, tiles, cliffs, width, height, xBytes, yBytes, record) ==
    p.fileId \o LE32(p.version) \o p.baseTileset \o LE32(p.hasCustomTileset)
    \o LE32(Len(tiles)) \o Flatten(tiles)
    \o LE32(Len(cliffs)) \o Flatten(cliffs)
    \o LE32(width) \o LE32(height) \o xBytes \o yBytes
    \o Flatten([i \in 1..(width * height) |-> record])

\* binary32 encodings: -128, 0, -0, 1.5, the least subnormal, the largest finite,
\* the infinities, a quiet NaN, a signalling NaN, a quiet NaN with a payload
F32Samples ==
    { <<0, 0, 0, 195>>, <<0, 0, 0, 0>>, <<0, 0, 0, 128>>, <<0, 0, 192, 63>>,
      <<1, 0, 0, 0>>, <<255, 255, 127, 127>>, <<0, 0, 128, 127>>, <<0, 0, 128, 255>>,
      <<0, 0, 192, 127>>, <<1, 0, 128, 127>>, <<1, 0, 192, 255>> }

IsNaNBytes(b) == getFloat32(b).k = "nan"

\* 7-byte corner records: one byte value throughout, or one byte set and the others 0
RecordSamples ==
    { [i \in 1..7 |-> v] : v \in {0, 1, 128, 165, 255} }
    \cup { [i \in 1..7 |-> IF i = j THEN v ELSE 0] : j \in 1..7, v \in {1, 128, 165, 255} }
    \cup { <<0, 32, 0, 32, 3, 0, 32>> }

\* the files that are as long as their header implies
WholeFiles ==
    { FileOf(p, PaletteOf(n, 0), PaletteOf(m, 3), 1, 1, <<0, 0, 0, 195>>, <<0, 0, 0, 0>>,
             <<0, 32, 0, 32, 3, 0, 32>>) :
        p \in HeaderProfiles, n \in 0..MaxPalette, m \in 0..MaxPalette }
    \cup { FileOf(DefaultProfile, PaletteOf(1, 0), PaletteOf(1, 3), 1, 1, f, g,
                  <<0, 32, 0, 32, 3, 0, 32>>) :
            f \in F32Samples, g \in {<<0, 0, 0, 0>>, <<1, 0, 128, 127>>} }
    \cup { FileOf(DefaultProfile, PaletteOf(1, 0), PaletteOf(1, 3), 1, 1,
                  <<0, 0, 0, 195>>, <<0, 0, 0, 0>>, r) :
            r \in RecordSamples }
    \cup { FileOf(DefaultProfile, PaletteOf(1, 0), PaletteOf(1, 3), w, h,
                  <<0, 0, 0, 195>>, <<0, 0, 0, 0>>, r) :
            w \in 0..MaxDim, h \in 0..MaxDim,
            r \in { <<0, 32, 0, 32, 3, 0, 32>>, <<255, 255, 255, 255, 255, 255, 255>> } }

\* the proper prefixes of b
Prefixes(b) == { SubSeq(b, 1, n) : n \in 0..(Len(b) - 1) }

\* the files cut short: every proper prefix of two whole files
CutFiles ==
    Prefixes(FileOf(DefaultProfile, PaletteOf(1, 0), PaletteOf(1, 3), 2, 1,
                    <<0, 0, 0, 195>>, <<0, 0, 0, 0>>, <<255, 255, 255, 255, 255, 255, 255>>))
    \cup Prefixes(FileOf(DefaultProfile, PaletteOf(0, 0), PaletteOf(2, 3), 1, 2,
                         <<0, 0, 192, 63>>, <<0, 0, 0, 195>>,
                         <<165, 165, 165, 165, 165, 165, 165>>))

\* files laid out with 6 bytes per corner
SixByteFiles ==
    { FileOf(DefaultProfile, PaletteOf(1, 0), PaletteOf(1, 3), w, 1,
             <<0, 0, 0, 195>>, <<0, 0, 0, 0>>, r) :
        w \in 1..MaxDim, r \in { <<0, 32, 0, 32, 3, 32>>, <<255, 255, 255, 255, 255, 255>> } }

FileSamples == WholeFiles \cup CutFiles \cup SixByteFiles

\* the length the header of b implies with recordSize bytes per corner, -1 when b
\* ends inside its header
ImpliedLen(b, recordSize) ==
    IF Len(b) < 17 THEN -1
    ELSE LET n == WordAt(b, 13)
         IN  IF Len(b) < 21 + 4 * n THEN -1
             ELSE LET m == WordAt(b, 17 + 4 * n)
                  IN  IF Len(b) < 37 + 4 * n + 4 * m THEN -1
                      ELSE 37 + 4 * n + 4 * m
                           + recordSize * WordAt(b, 21 + 4 * n + 4 * m)
                                        * WordAt(b, 25 + 4 * n + 4 * m)

\* the x and y fields of a file that holds its whole header
XBytes(b) == SubSeq(b, ImpliedLen(b, 0) - 7, ImpliedLen(b, 0) - 4)
YBytes(b) == SubSeq(b, ImpliedLen(b, 0) - 3, ImpliedLen(b, 0))

InitCodec ==
    /\ buffer = <<>> /\ bitPosition = 0 /\ isWriting = FALSE /\ ret = NoCall /\ calls = 0
    /\ written = <<>>
    /\ src \in {"doc", "file"}
    /\ orig \in (IF src = "doc" THEN DocSamples ELSE FileSamples)
    /\ w3e = (IF src = "doc" THEN orig ELSE NoDoc)
    /\ file = (IF src = "doc" THEN <<>> ELSE orig)
    /\ phase = "start"
    /\ thrown = ""
    /\ InitApp

\* the caller encodes the document it holds
Encode ==
    /\ <<src, phase>> \in { <<"doc", "start">>, <<"file", "decoded">> }
    /\ thrown = ""
    /\ \E nanBytes \in QuietNaNs :
        \E r \in {encodeW3e(w3e, nanBytes)} :
            /\ thrown' = r.err
            /\ file' = (IF r.err = "" THEN r.bytes ELSE file)
    /\ phase' = (IF src = "doc" THEN "encoded" ELSE "reencoded")
    /\ UNCHANGED <<w3e, orig, src>>
    /\ UNCHANGED streamVars
    /\ UNCHANGED appVars

\* the caller decodes the file it holds
Decode ==
    /\ <<src, phase>> \in { <<"file", "start">>, <<"doc", "encoded">> }
    /\ thrown = ""
    /\ \E r \in {decodeW3e(file)} :
        /\ thrown' = r.err
        /\ w3e' = (IF r.err = "" THEN r.doc ELSE w3e)
    /\ phase' = "decoded"
    /\ UNCHANGED <<file, orig, src>>
    /\ UNCHANGED streamVars
    /\ UNCHANGED appVars

NextCodec == Encode \/ Decode

CodecSpec == InitCodec /\ [][NextCodec]_vars

---------------------------------------------------------------------------
(* The editor as a state machine: App with a terrain, its palette, its brush *)
(* and a source image                                                       *)

\* the number of paints and image mappings made on one terrain
MaxEdits == 2
\* the number of changes made to the mappings
MaxPaletteOps == 2

\* the grids of the terrains: width and height
GridSamples == { <<2, 2>>, <<0, 2>> }

\* the files imported: a whole file, the same with its last corner record
\* missing, and one cut after its width
EditorWhole(g) ==
    FileOf(DefaultProfile, PaletteOf(1, 0), PaletteOf(2, 3), g[1], g[2],
           <<0, 0, 0, 195>>, <<0, 0, 0, 0>>, <<0, 32, 0, 32, 3, 0, 32>>)
EditorFiles ==
    { EditorWhole(<<2, 2>>),
      SubSeq(EditorWhole(<<2, 2>>), 1, Len(EditorWhole(<<2, 2>>)) - 7),
      SubSeq(EditorWhole(<<3, 1>>), 1, ImpliedLen(EditorWhole(<<3, 1>>), 0) - 12) }

\* the slots whose checkbox, colour input and picker are used
SlotSamples == {0, 1}
\* the value of the colour input: "#000000"
ColorInputs == { InitialColors[1] }
\* the pixels of the source images: one as far from "#000000" as from "#1a1a1a",
\* one next to "#1a1a1a", a red one (nearest to slot 11, which is never active)
\* and a black one
PixelSamples ==
    << [r |-> 13, g |-> 13, b |-> 13], [r |-> 20, g |-> 20, b |-> 20],
       [r |-> 250, g |-> 10, b |-> 0], [r |-> 0, g |-> 0, b |-> 0] >>
\* the source images, each by the pixel data drawImage and getImageData give
\* for a grid of width x height: image img starts at pixel sample img + 1
ImageSamples == {0}
ImageData(img, width, height) ==
    [k \in 1..(width * height) |-> PixelSamples[((k - 1 + img) % Len(PixelSamples)) + 1]]
\* the whole parts of the canvas coordinates of the pointer: in the first
\* column, in the second, left of the canvas; in the top row
PaintXs == {3, 12, -3}
PaintYs == {3}
TextureSamples == {0, 7}
BrushSizes == {1, 3}

InitEditor ==
    /\ buffer = <<>> /\ bitPosition = 0 /\ isWriting = FALSE /\ ret = NoCall /\ calls = 0
    /\ written = <<>>
    /\ w3e = NoDoc /\ file = <<>> /\ orig = <<>> /\ src = "none"
    /\ phase = "start" /\ thrown = ""
    /\ InitApp

\* the file input's onChange and the reader's onload: the terrain becomes what
\* decodeW3e returns
ImportW3E ==
    /\ w3e = NoDoc
    /\ \E f \in EditorFiles :
        \E r \in {decodeW3e(f)} :
            /\ w3e' = (IF r.err = "" THEN r.doc ELSE w3e)
            /\ edit' = [NoEdit EXCEPT !.op = "decodeW3e", !.err = r.err, !.set = (r.err = "")]
    /\ UNCHANGED <<file, orig, src, phase, thrown>>
    /\ UNCHANGED <<mappings, selectedTexture, brushSize, pickingSlot, edits, paletteOps>>
    /\ UNCHANGED streamVars

\* a terrain made by generateEmptyW3e is handed to the editor
NewTerrain ==
    /\ w3e = NoDoc
    /\ \E g \in GridSamples :
        w3e' = generateEmptyW3e(g[1], g[2], <<76>>)
    /\ edit' = [NoEdit EXCEPT !.op = "generateEmptyW3e", !.set = TRUE]
    /\ UNCHANGED <<file, orig, src, phase, thrown>>
    /\ UNCHANGED <<mappings, selectedTexture, brushSize, pickingSlot, edits, paletteOps>>
    /\ UNCHANGED streamVars

\* the onChange of a slot's checkbox: e.target.checked is the opposite of what
\* the checkbox shows
ToggleActive ==
    /\ paletteOps < MaxPaletteOps
    /\ paletteOps' = paletteOps + 1
    /\ \E i \in SlotSamples :
        mappings' = [mappings EXCEPT ![i + 1].active = ~mappings[i + 1].active]
    /\ UNCHANGED <<selectedTexture, brushSize, pickingSlot, edit, edits>>
    /\ UNCHANGED <<codecVars, streamVars>>

\* the onChange of a slot's colour input
SetColor ==
    /\ paletteOps < MaxPaletteOps
    /\ paletteOps' = paletteOps + 1
    /\ \E i \in {1}, value \in ColorInputs :
        mappings' = [mappings EXCEPT ![i + 1].color = value]
    /\ UNCHANGED <<selectedTexture, brushSize, pickingSlot, edit, edits>>
    /\ UNCHANGED <<codecVars, streamVars>>

\* the picker button of a slot: setPickingSlot(pickingSlot === i ? null : i)
TogglePicking ==
    /\ \E i \in {1} : pickingSlot' = (IF pickingSlot = i THEN -1 ELSE i)
    /\ UNCHANGED <<mappings, selectedTexture, brushSize, edit, edits, paletteOps>>
    /\ UNCHANGED <<codecVars, streamVars>>

\* handleImageCanvasClick on a pixel of the image canvas while a slot is picking
PickColor ==
    /\ pickingSlot # -1
    /\ paletteOps < MaxPaletteOps
    /\ paletteOps' = paletteOps + 1
    /\ \E pixel \in {PixelSamples[1]} :
        mappings' = [mappings EXCEPT ![pickingSlot + 1].color = PixelHex(pixel)]
    /\ pickingSlot' = -1
    /\ UNCHANGED <<selectedTexture, brushSize, edit, edits>>
    /\ UNCHANGED <<codecVars, streamVars>>

\* a click on a slot's row
SelectTexture ==
    /\ \E i \in TextureSamples : selectedTexture' = i
    /\ UNCHANGED <<mappings, brushSize, pickingSlot, edit, edits, paletteOps>>
    /\ UNCHANGED <<codecVars, streamVars>>

\* the onChange of the brush range input
SetBrushSize ==
    /\ \E value \in BrushSizes : brushSize' = value
    /\ UNCHANGED <<mappings, selectedTexture, pickingSlot, edit, edits, paletteOps>>
    /\ UNCHANGED <<codecVars, streamVars>>

\* the Apply Mapping button, with a terrain and one of the source images loaded
ApplyMapping ==
    /\ w3e # NoDoc
    /\ edits < MaxEdits
    /\ edits' = edits + 1
    /\ \E img \in ImageSamples :
        \E imgData \in {ImageData(img, w3e.header.width, w3e.header.height)} :
            \E r \in {applyImageToTerrain(w3e, mappings, imgData)} :
                /\ w3e' = r.doc
                /\ edit' = [op |-> "applyImageToTerrain", err |-> r.err, set |-> r.set,
                            mappings |-> mappings, imgData |-> imgData]
    /\ UNCHANGED <<file, orig, src, phase, thrown>>
    /\ UNCHANGED <<mappings, selectedTexture, brushSize, pickingSlot, paletteOps>>
    /\ UNCHANGED streamVars

\* a mouse down or a mouse move over the terrain canvas with the left button down
Paint ==
    /\ w3e # NoDoc
    /\ edits < MaxEdits
    /\ edits' = edits + 1
    /\ \E x \in PaintXs, y \in PaintYs :
        \E r \in {handleTerrainPaint(w3e, brushSize, selectedTexture, x, y)} :
            /\ w3e' = r.doc
            /\ edit' = [op |-> "handleTerrainPaint", err |-> r.err, set |-> r.set,
                        mappings |-> mappings, imgData |-> <<>>]
    /\ UNCHANGED <<file, orig, src, phase, thrown>>
    /\ UNCHANGED <<mappings, selectedTexture, brushSize, pickingSlot, paletteOps>>
    /\ UNCHANGED streamVars

NextEditor ==
    \/ ImportW3E \/ NewTerrain
    \/ ToggleActive \/ SetColor \/ TogglePicking \/ PickColor
    \/ SelectTexture \/ SetBrushSize
    \/ ApplyMapping \/ Paint

EditorSpec == InitEditor /\ [][NextEditor]_vars

---------------------------------------------------------------------------

Init == InitStream \/ InitCodec \/ InitEditor
Next == NextStream \/ NextGrow \/ NextCodec \/ NextEditor
Spec == Init /\ [][Next]_vars

---------------------------------------------------------------------------
(* Properties of the codec *)

\* the counts of a document agree with what it holds
Consistent(doc) ==
    /\ doc.header.tilePaletteCount = Len(doc.header.tilePalette)
    /\ doc.header.cliffTilePaletteCount = Len(doc.header.cliffTilePalette)
    /\ Len(doc.corners) = doc.header.width * doc.header.height

\* a height, in sixteenths, whose raw value h * 4 + 8192 lies in 0..maxRaw
HeightInRange(h, maxRaw) == HeightOf(0) <= h /\ h <= HeightOf(maxRaw)

\* every field of the cell within its declared width, the heights multiples of 0.25
InWidth(cell) ==
    /\ \A f \in NarrowFields : 0 <= cell[f] /\ cell[f] <= FieldMax[f]
    /\ cell.groundHeight % 4 = 0 /\ HeightInRange(cell.groundHeight, 65535)
    /\ cell.waterHeight % 4 = 0 /\ HeightInRange(cell.waterHeight, 16383)

WellFormed(doc) ==
    Consistent(doc) /\ \A i \in DOMAIN doc.corners : InWidth(CellOf(doc.corners[i]))

\* C1: a document with consistent counts, every corner field within its width and
\* heights that are in-range multiples of 0.25 is encoded without an error, and
\* decoding what encodeW3e returned gives back the document, field for field
\* (x and y are float32 numbers, tags are four characters, each corner carries
\* its row-major index, rowid and colid, as in every document the program makes).
C1_RoundTrip ==
    (src = "doc" /\ WellFormed(orig)) =>
        /\ phase = "encoded" => thrown = ""
        /\ phase = "decoded" => thrown = "" /\ w3e = orig

\* a well-formed document with more than one corner and both palettes filled has
\* been encoded and decoded
C1_Witness ==
    /\ src = "doc" /\ phase = "decoded" /\ WellFormed(orig)
    /\ Len(orig.corners) > 1
    /\ orig.header.tilePaletteCount > 0 /\ orig.header.cliffTilePaletteCount > 0
    /\ orig.corners[1].cliffVariation > 0
    /\ w3e = orig

\* the file is exactly as long as its header implies, with 7 bytes per corner
Whole(b) == Len(b) = ImpliedLen(b, 7)

\* the offsets (from 1) of the x and of the y field of a file
XField(b) == (ImpliedLen(b, 0) - 7)..(ImpliedLen(b, 0) - 4)
YField(b) == (ImpliedLen(b, 0) - 3)..ImpliedLen(b, 0)

\* C2 (as amended): for a buffer exactly as long as its header implies with 7
\* bytes per corner (37 + 4N + 4M + 7 * width * height), decoding and encoding
\* again gives a buffer of the same length that equals it byte for byte, except
\* that an x or y field holding a NaN comes back as a NaN in the engine's
\* encoding of NaN.
C2_ReencodeSevenByteRecords ==
    (src = "file" /\ Whole(orig)) =>
        /\ phase = "decoded" => thrown = ""
        /\ phase = "reencoded" =>
            /\ thrown = ""
            /\ Len(file) = Len(orig)
            /\ \A i \in 1..Len(orig) :
                \/ file[i] = orig[i]
                \/ i \in XField(orig) /\ IsNaNBytes(XBytes(orig)) /\ IsNaNBytes(XBytes(file))
                \/ i \in YField(orig) /\ IsNaNBytes(YBytes(orig)) /\ IsNaNBytes(YBytes(file))

\* a whole file with more than one corner record came back byte for byte
C2_Witness ==
    /\ src = "file" /\ phase = "reencoded" /\ Whole(orig)
    /\ Len(orig) > ImpliedLen(orig, 0) + 7
    /\ file = orig

\* C2 (as stated): for a buffer exactly as long as its header implies with 6 bytes
\* per corner, decoding and encoding again gives the same bytes.
C2_ReencodeSixByteRecords ==
    (src = "file" /\ phase = "reencoded" /\ Len(orig) = ImpliedLen(orig, 6)) => file = orig

\* C3: on a read-bound stream, a readUBits(n) that needs bits beyond
\* buffer.length * 8 fails with an error; it returns no value.
C3_ReadPastEndFails ==
    (ret.op = "readUBits" /\ ~isWriting /\ ret.pre + ret.n > Len(buffer) * 8) => ret.err # ""

\* the file ends before what its header's counts and width * height require
Truncated(b) == ImpliedLen(b, 7) = -1 \/ Len(b) < ImpliedLen(b, 7)

\* C4: decodeW3e on a truncated buffer fails with an error that reaches the
\* caller; it returns no document.
C4_TruncatedDecodeFails ==
    (src = "file" /\ phase = "decoded" /\ Truncated(orig)) => thrown # "" /\ w3e = NoDoc

\* the call r records was made on a stream bound the other way
WrongMode(r) ==
    IF r.kind = "read" THEN r.mode
    ELSE IF r.kind \in {"write", "get"} THEN ~r.mode
    ELSE FALSE

\* C5: the mode never changes, and a read on a write-bound stream, a write or a
\* getBuffer on a read-bound stream fails and leaves the cursor and the buffer
\* as they were.
C5_ModeEnforced ==
    ret.op # "" =>
        /\ isWriting = ret.mode
        /\ WrongMode(ret) => (ret.err # "" /\ bitPosition = ret.pre /\ buffer = ret.buf)

\* the i-th 7-byte corner record of a file
RecordAt(b, i) == SubSeq(b, ImpliedLen(b, 0) + 7 * (i - 1) + 1, ImpliedLen(b, 0) + 7 * i)

\* the fields a record holds, taken apart as decodeW3e takes them apart
FieldsOf(rec) ==
    CellOf(UnpackCorner(0, 1, rec[1] + 256 * rec[2], rec[3] + 256 * rec[4],
                        rec[5], rec[6], rec[7]))

\* the cell with every narrow field and the raw water height masked to its width
\* (heights multiples of 0.25)
MaskedCell(cell) ==
    [ f \in Fields |->
        IF f \in NarrowFields THEN cell[f] % (2 ^ FieldWidth[f])
        ELSE IF f = "waterHeight" THEN HeightOf((cell[f] \div 4 + 8192) % 16384)
        ELSE cell[f] ]

\* C6: encodeW3e masks a corner field that is outside its declared width: every
\* field of the record it writes holds the masked value, so the bits of the other
\* fields are what they would be had the field been given its masked value.
C6_OutOfWidthMasked ==
    (src = "doc" /\ phase = "encoded" /\ thrown = "" /\ Consistent(orig) /\ Whole(file)) =>
        \A i \in DOMAIN orig.corners :
            LET cell == CellOf(orig.corners[i])
            IN  (/\ cell.groundHeight % 4 = 0 /\ HeightInRange(cell.groundHeight, 65535)
                 /\ cell.waterHeight % 4 = 0)
                => FieldsOf(RecordAt(file, i)) = MaskedCell(cell)

\* C7: a corner with one field at its maximum and every other field 0 is the
\* same after encodeW3e and decodeW3e: the field keeps its maximum and every
\* other field is 0.
C7_BitfieldIsolation ==
    (src = "doc" /\ phase = "decoded" /\ Consistent(orig)) =>
        \A i \in DOMAIN orig.corners :
            CellOf(orig.corners[i]) \in IsolationCells =>
                /\ thrown = ""
                /\ i \in DOMAIN w3e.corners
                /\ CellOf(w3e.corners[i]) = CellOf(orig.corners[i])

\* the corner with only ramp set has been encoded and decoded
C7_Witness ==
    /\ src = "doc" /\ phase = "decoded" /\ Consistent(orig) /\ Len(orig.corners) = 1
    /\ CellOf(orig.corners[1]) = [ZeroCell EXCEPT !.ramp = 1]
    /\ CellOf(w3e.corners[1]) = [ZeroCell EXCEPT !.ramp = 1]

\* C8: for every mapEdge in 0..3 and every waterHeight whose raw value
\* waterHeight * 4 + 8192 is an integer in 0..16383, encodeW3e then decodeW3e
\* returns the same mapEdge and the same waterHeight.
C8_EdgeAndWaterShareWord ==
    (src = "doc" /\ phase = "decoded" /\ Consistent(orig)) =>
        \A i \in DOMAIN orig.corners :
            (/\ orig.corners[i].mapEdge \in 0..3
             /\ orig.corners[i].waterHeight % 4 = 0
             /\ HeightInRange(orig.corners[i].waterHeight, 16383))
            => /\ thrown = ""
               /\ i \in DOMAIN w3e.corners
               /\ w3e.corners[i].mapEdge = orig.corners[i].mapEdge
               /\ w3e.corners[i].waterHeight = orig.corners[i].waterHeight

\* the largest mapEdge with the largest raw water height has been encoded and decoded
C8_Witness ==
    /\ src = "doc" /\ phase = "decoded" /\ Consistent(orig) /\ Len(orig.corners) = 1
    /\ orig.corners[1].mapEdge = 3 /\ orig.corners[1].waterHeight = HeightOf(16383)
    /\ w3e.corners[1].mapEdge = 3 /\ w3e.corners[1].waterHeight = HeightOf(16383)

\* the height h (in sixteenths) came back as d: h itself when it is a multiple of
\* 0.25, else a multiple of 0.25 that no other multiple is nearer to h than
Nearest(h, d) == IF h % 4 = 0 THEN d = h ELSE d % 4 = 0 /\ d - h <= 2 /\ h - d <= 2

\* C9: a groundHeight whose raw value h * 4 + 8192 lies in 0..65535 and a
\* waterHeight whose raw value lies in 0..16383 are reproduced exactly by
\* encodeW3e then decodeW3e when they are multiples of 0.25, and come back as the
\* nearest multiple of 0.25 otherwise.
C9_HeightPrecision ==
    (src = "doc" /\ phase = "decoded" /\ Consistent(orig)) =>
        \A i \in DOMAIN orig.corners :
            /\ HeightInRange(orig.corners[i].groundHeight, 65535) =>
                  /\ thrown = "" /\ i \in DOMAIN w3e.corners
                  /\ Nearest(orig.corners[i].groundHeight, w3e.corners[i].groundHeight)
            /\ HeightInRange(orig.corners[i].waterHeight, 16383) =>
                  /\ thrown = "" /\ i \in DOMAIN w3e.corners
                  /\ Nearest(orig.corners[i].waterHeight, w3e.corners[i].waterHeight)

\* a groundHeight of -0.0625 has come back as 0
C9_Witness ==
    /\ src = "doc" /\ phase = "decoded" /\ Consistent(orig) /\ Len(orig.corners) = 1
    /\ orig.corners[1].groundHeight = -1
    /\ w3e.corners[1].groundHeight = 0

\* C10 (as amended): the 2 x 1 scenario document is encoded in 59 bytes (a header
\* of 45 bytes and two corner records of 7), and decoding them gives groundTexture
\* 3 at both corners.
C10_ScenarioIn59Bytes ==
    (src = "doc" /\ orig = ScenarioDoc) =>
        /\ phase = "encoded" => thrown = "" /\ Len(file) = 59
        /\ phase = "decoded" =>
              /\ thrown = "" /\ Len(file) = 59
              /\ Len(w3e.corners) = 2
              /\ w3e.corners[1].groundTexture = 3 /\ w3e.corners[2].groundTexture = 3

\* the scenario document has been encoded and decoded
C10_Witness ==
    /\ src = "doc" /\ orig = ScenarioDoc /\ phase = "decoded" /\ Len(file) = 59
    /\ w3e.corners[2].groundTexture = 3

\* C10 (as stated): the scenario document is encoded in 45 bytes, and decoding
\* them gives groundTexture 3 at both corners.
C10_ScenarioIn45Bytes ==
    (src = "doc" /\ orig = ScenarioDoc /\ phase = "decoded") =>
        /\ thrown = "" /\ Len(file) = 45
        /\ Len(w3e.corners) = 2
        /\ w3e.corners[1].groundTexture = 3 /\ w3e.corners[2].groundTexture = 3

---------------------------------------------------------------------------
(* Properties of the bit stream *)

\* bit k of a sequence of bits, 0 beyond its end
BitOr0(bits, k) == IF k <= Len(bits) THEN bits[k] ELSE 0

\* byte i of a sequence of bits laid out most significant bit first, the last
\* byte filled up with zeros
ByteOfBits(bits, i) ==
    128 * BitOr0(bits, 8 * i - 7) + 64 * BitOr0(bits, 8 * i - 6)
    + 32 * BitOr0(bits, 8 * i - 5) + 16 * BitOr0(bits, 8 * i - 4)
    + 8 * BitOr0(bits, 8 * i - 3) + 4 * BitOr0(bits, 8 * i - 2)
    + 2 * BitOr0(bits, 8 * i - 1) + BitOr0(bits, 8 * i)

\* C11: getBuffer on a write-bound stream returns exactly ceil(bitPosition / 8)
\* bytes, whatever writes came before it (widths that are not multiples of 8, writes
\* that made the buffer grow): the cursor counts the bits written, the bytes
\* returned are those bits in order, and nothing of the unused capacity follows.
C11_GetBufferExact ==
    (ret.op = "getBuffer" /\ ret.mode) =>
        /\ ret.err = ""
        /\ bitPosition = Len(written)
        /\ Len(ret.v) = (bitPosition + 7) \div 8
        /\ \A i \in 1..Len(ret.v) : ret.v[i] = ByteOfBits(written, i)

\* getBuffer returned after the buffer grew, with the cursor inside a byte
C11_Witness ==
    /\ ret.op = "getBuffer" /\ ret.mode /\ ret.err = ""
    /\ Len(buffer) > InitialSize
    /\ Len(ret.v) > InitialSize
    /\ Len(ret.v) < Len(buffer)
    /\ bitPosition % 8 # 0

\* n is the initial capacity doubled some number of times
RECURSIVE IsDoubled(_)
IsDoubled(n) ==
    IF n <= InitialSize THEN n = InitialSize ELSE n % 2 = 0 /\ IsDoubled(n \div 2)

\* C16: on a write-bound stream the capacity covers the cursor after every write
\* (it covered cursor + width before the bits were stored), it never decreases,
\* it is the initial 1024 bytes doubled some number of times, and every byte
\* written before a call keeps its value, across a growth step as well.
C16_GrowthByDoubling ==
    isWriting =>
        /\ Len(buffer) * 8 >= bitPosition
        /\ IsDoubled(Len(buffer))
        /\ ret.op # "" =>
            /\ Len(buffer) >= Len(ret.buf)
            /\ Len(buffer) * 8 >= ret.pre + (IF ret.kind = "write" THEN ret.n ELSE 0)
            /\ \A i \in 1..(ret.pre \div 8) : buffer[i] = ret.buf[i]
            /\ \A i \in 1..(bitPosition \div 8) : buffer[i] = ByteOfBits(written, i)

\* the last call made the buffer grow from 1024 to 2048 bytes, from a cursor
\* inside a byte
C16_Witness ==
    /\ isWriting /\ ret.op = "writeString32Array" /\ ret.err = ""
    /\ Len(ret.buf) = InitialSize
    /\ Len(buffer) = 2 * InitialSize
    /\ ret.pre % 8 # 0
    /\ ret.pre > 0


\* C12: on a read-bound stream a non-peek readUBits(n) that returns has advanced
\* the cursor by exactly n, and a peek read of any read operation that returns
\* has left the cursor where it was before the call, however few bits remain
\* between the cursor and the end of the buffer.
C12_CursorMovesByWidth ==
    (ret.kind = "read" /\ ~ret.mode /\ ret.err = "") =>
        /\ (ret.op = "readUBits" /\ ~ret.peek) => bitPosition = ret.pre + ret.n
        /\ ret.peek => bitPosition = ret.pre

\* C15: on a read-bound stream the cursor stays between 0 and the number of bits
\* of the buffer, and no read operation, peek or not, leaves it smaller than it
\* was before the operation.
C15_ReadCursorInvariant ==
    ~isWriting =>
        /\ 0 <= bitPosition
        /\ bitPosition <= Len(buffer) * 8
        /\ (ret.kind = "read") => bitPosition >= ret.pre

\* the bit at position p of the bytes b, position 0 the top bit of the first byte
BufBit(b, p) == (b[(p \div 8) + 1] \div (2 ^ (7 - (p % 8)))) % 2
\* the same for the buffer before a call, which may have been shorter
OldBit(p) == IF p \div 8 < Len(ret.buf) THEN BufBit(ret.buf, p) ELSE 0

\* C18: writeUBits(value, n) at any cursor position stores the low n bits of
\* value, the most significant first, into the bit positions cursor .. cursor +
\* n - 1, and every other bit of the buffer is what it was before the call: the
\* bytes the write does not reach are compared whole, the first and the last
\* byte it reaches bit by bit.
C18_WriteUBitsFrame ==
    (ret.op = "writeUBits" /\ ret.mode /\ ret.err = "") =>
        /\ bitPosition = ret.pre + ret.n
        /\ Len(buffer) >= Len(ret.buf)
        /\ \A k \in 0..(ret.n - 1) : BufBit(buffer, ret.pre + k) = BitOf(ret.arg, ret.n - 1 - k)
        /\ \A i \in 1..Len(buffer) :
              IF 8 * i <= ret.pre \/ 8 * (i - 1) >= ret.pre + ret.n
              THEN buffer[i] = (IF i <= Len(ret.buf) THEN ret.buf[i] ELSE 0)
              ELSE \A p \in (8 * (i - 1))..(8 * i - 1) :
                       (p < ret.pre \/ p >= ret.pre + ret.n) => BufBit(buffer, p) = OldBit(p)

\* a 13-bit write that starts and ends inside a byte, after bits already written
\* into its first byte
C18_Witness ==
    /\ ret.op = "writeUBits" /\ ret.mode /\ ret.err = ""
    /\ ret.n = 13 /\ ret.arg = 42405
    /\ ret.pre % 8 # 0 /\ (ret.pre + ret.n) % 8 # 0
    /\ ret.buf[1] # 0

\* the number whose n binary digits, the most significant first, are the bits
\* p .. p + n - 1 of the bytes b (n <= 31)
RECURSIVE WindowVal(_, _, _)
WindowVal(b, p, n) ==
    IF n = 0 THEN 0 ELSE 2 * WindowVal(b, p, n - 1) + BufBit(b, p + n - 1)
\* the same for n <= 32
UnsignedAt(b, p, n) ==
    IF n = 32 /\ BufBit(b, p) = 1 THEN [above31 |-> WindowVal(b, p + 1, 31)]
    ELSE WindowVal(b, p, n)
\* b0 + 256 * b1 (+ 65536 * b2 + 16777216 * b3) for the k bytes b0.. that start
\* at bit p
LittleEndianAt(b, p, k) ==
    LET byte(j) == WindowVal(b, p + 8 * j, 8)
    IN  IF k = 1 THEN byte(0)
        ELSE IF k = 2 THEN byte(0) + 256 * byte(1)
        ELSE IF byte(3) >= 128
             THEN [above31 |-> byte(0) + 256 * byte(1) + 65536 * byte(2)
                                + 16777216 * (byte(3) - 128)]
             ELSE byte(0) + 256 * byte(1) + 65536 * byte(2) + 16777216 * byte(3)
\* u as a signed number of w bits
SignExtended(u, w) == IF u >= 2 ^ (w - 1) THEN u - 2 ^ w ELSE u

\* what a typed read at bit p of the bytes b is specified to return
SpecifiedRead(op, b, p, n) ==
    CASE op = "readUBits" -> UnsignedAt(b, p, n)
      [] op = "readUInt8" -> LittleEndianAt(b, p, 1)
      [] op = "readInt8" -> SignExtended(LittleEndianAt(b, p, 1), 8)
      [] op = "readUInt16" -> LittleEndianAt(b, p, 2)
      [] op = "readInt16" -> SignExtended(LittleEndianAt(b, p, 2), 16)
      [] op = "readUInt32" -> LittleEndianAt(b, p, 4)

IntegerReads == {"readUBits", "readUInt8", "readInt8", "readUInt16", "readInt16", "readUInt32"}
IntegerWrites ==
    {"writeUBits", "writeUInt8", "writeInt8", "writeUInt16", "writeInt16", "writeUInt32"}

\* the value written is in the range of its type; a number from 2^31 to 2^32 - 1
\* is carried as its ToInt32, so every argument of a 32-bit write is in range
InTypeRange(op, value, n) ==
    CASE op = "writeUBits" -> n = 32 \/ (0 <= value /\ value < 2 ^ n)
      [] op = "writeUInt8" -> 0 <= value /\ value <= 255
      [] op = "writeInt8" -> -128 <= value /\ value <= 127
      [] op = "writeUInt16" -> 0 <= value /\ value <= 65535
      [] op = "writeInt16" -> -32768 <= value /\ value <= 32767
      [] op = "writeUInt32" -> TRUE

\* the bytes a writer hands over, opened by a reader that has read up to bit pre
ReaderAt(pre) ==
    [buffer |-> getBuffer(Stream).v, bitPosition |-> pre, isWriting |-> FALSE]
\* the read that matches the write op, made by that reader
MatchingRead(op, pre, n) ==
    CASE op = "writeUBits" -> readUBits(ReaderAt(pre), n, TRUE)
      [] op = "writeUInt8" -> readUInt8(ReaderAt(pre), TRUE)
      [] op = "writeInt8" -> readInt8(ReaderAt(pre), TRUE)
      [] op = "writeUInt16" -> readUInt16(ReaderAt(pre), TRUE)
      [] op = "writeInt16" -> readInt16(ReaderAt(pre), TRUE)
      [] op = "writeUInt32" -> readUInt32(ReaderAt(pre), TRUE)
\* the number a 32-bit unsigned read gives for the bits of the int32 value
AsUnsigned32(value) == IF value < 0 THEN [above31 |-> value + 2147483647 + 1] ELSE value

\* C13: a typed read whose bits all lie inside the buffer returns what is
\* specified: readUBits(n) the next n bits, the most significant first;
\* readUInt8, readUInt16 and readUInt32 the next bytes b0 + 256 * b1 + 65536 * b2
\* + 16777216 * b3, a number of 0 .. 2^32 - 1; readInt8 and readInt16 that
\* number less 2^w when it is 2^(w-1) or more.  And the read that matches a
\* typed write, made at the place of the write on the bytes the writer hands
\* over, returns the value written when that value is in the type's range.
C13_TypedReadsAssembled ==
    /\ ( /\ ret.op \in IntegerReads /\ ~ret.mode /\ ret.err = ""
         /\ ret.pre >= 0 /\ ret.pre + ret.n <= 8 * Len(ret.buf) )
       => ret.v = SpecifiedRead(ret.op, ret.buf, ret.pre, ret.n)
    /\ ( /\ ret.op \in IntegerWrites /\ ret.mode /\ ret.err = ""
         /\ InTypeRange(ret.op, ret.arg, ret.n) )
       => /\ MatchingRead(ret.op, ret.pre, ret.n).err = ""
          /\ MatchingRead(ret.op, ret.pre, ret.n).s.bitPosition = bitPosition
          /\ MatchingRead(ret.op, ret.pre, ret.n).v =
                (IF ret.n = 32 THEN AsUnsigned32(ret.arg) ELSE ret.arg)

\* a readInt16 of two bytes that straddle byte boundaries and whose second has
\* its top bit set
C13_Witness ==
    /\ ret.op = "readInt16" /\ ~ret.mode /\ ret.err = ""
    /\ ret.pre % 8 # 0 /\ ret.pre + 16 <= 8 * Len(ret.buf)
    /\ ret.v < 0

---------------------------------------------------------------------------
(* Properties of the editor *)

\* the red, green and blue of a colour "#rrggbb"
RgbOf(color) ==
    [ r |-> 16 * HexValue(color[2]) + HexValue(color[3]),
      g |-> 16 * HexValue(color[4]) + HexValue(color[5]),
      b |-> 16 * HexValue(color[6]) + HexValue(color[7]) ]
\* the squared Euclidean distance of a pixel and a colour
SquaredDistance(pixel, rgb) ==
    (pixel.r - rgb.r) * (pixel.r - rgb.r) + (pixel.g - rgb.g) * (pixel.g - rgb.g)
    + (pixel.b - rgb.b) * (pixel.b - rgb.b)
\* the pixel applyImageToTerrain reads for a cell: the image is upside down
PixelOfCell(cell, width, height) ==
    edit.imgData[((height - 1) - (cell \div width)) * width + (cell % width) + 1]
\* the place in mappings of a nearest active entry that has no active entry as
\* near before it
IsFirstNearest(k, maps, pixel) ==
    /\ maps[k].active
    /\ \A o \in 1..Len(maps) :
          maps[o].active =>
              /\ SquaredDistance(pixel, RgbOf(maps[o].color))
                    >= SquaredDistance(pixel, RgbOf(maps[k].color))
              /\ SquaredDistance(pixel, RgbOf(maps[o].color))
                    = SquaredDistance(pixel, RgbOf(maps[k].color)) => o >= k

\* C14: after applyImageToTerrain has set the terrain, the ground texture of
\* every cell is the slot of an active palette entry whose squared distance to
\* the cell's pixel is the least among the active entries, the first such entry
\* in palette order; two cells with equal pixels have equal ground textures.
C14_NearestColour ==
    (edit.op = "applyImageToTerrain" /\ edit.set) =>
        /\ \A cell \in 0..(w3e.header.width * w3e.header.height - 1) :
              \E k \in 1..Len(edit.mappings) :
                  /\ edit.mappings[k].slotIndex = w3e.corners[cell + 1].groundTexture
                  /\ IsFirstNearest(k, edit.mappings,
                                    PixelOfCell(cell, w3e.header.width, w3e.header.height))
        /\ \A c1, c2 \in 0..(w3e.header.width * w3e.header.height - 1) :
              PixelOfCell(c1, w3e.header.width, w3e.header.height)
                 = PixelOfCell(c2, w3e.header.width, w3e.header.height)
              => w3e.corners[c1 + 1].groundTexture = w3e.corners[c2 + 1].groundTexture

\* slots 0 and 1 active with their different colours, a pixel as far from one
\* as from the other mapped to slot 0 and another pixel mapped to slot 1
C14_Witness ==
    /\ edit.op = "applyImageToTerrain" /\ edit.set
    /\ edit.mappings[1].active /\ edit.mappings[2].active
    /\ edit.mappings[1].color # edit.mappings[2].color
    /\ \E cell \in 0..(w3e.header.width * w3e.header.height - 1) :
          /\ PixelOfCell(cell, w3e.header.width, w3e.header.height) = PixelSamples[1]
          /\ w3e.corners[cell + 1].groundTexture = 0
    /\ \E cell \in 0..(w3e.header.width * w3e.header.height - 1) :
          w3e.corners[cell + 1].groundTexture = 1

\* the shape of a document
Shaped(doc) ==
    /\ Len(doc.corners) = doc.header.width * doc.header.height
    /\ Len(doc.header.tilePalette) = doc.header.tilePaletteCount
    /\ Len(doc.header.cliffTilePalette) = doc.header.cliffTilePaletteCount
    /\ \A i \in 0..(Len(doc.corners) - 1) :
          /\ doc.corners[i + 1].index = i
          /\ doc.corners[i + 1].rowid = i \div doc.header.width
          /\ doc.corners[i + 1].colid = i % doc.header.width

\* C17: the terrain the editor holds, returned by generateEmptyW3e or by
\* decodeW3e and then painted and mapped any number of times, has width * height
\* corners, as many tile and cliff tile names as its counts say, and corner i
\* carries index i, row floor(i / width) and column i mod width.
C17_DocumentShape == (edit.op # "") => Shaped(w3e)

\* a terrain decoded from a file, mapped from an image and then painted
C17_Witness ==
    /\ edit.op = "handleTerrainPaint" /\ edit.set /\ edits = MaxEdits
    /\ w3e.header.cliffTilePaletteCount = 2
    /\ w3e.header.width * w3e.header.height > 1
    /\ \E i \in 1..Len(w3e.corners) : w3e.corners[i].groundTexture = 7
    /\ \E i \in 1..Len(w3e.corners) : w3e.corners[i].groundTexture = 1
====
